---- MODULE Spec2Model ----
(***************************************************************************)
(* winsynth: the NoiseMaker<T> streaming engine (noiseMaker.h) together    *)
(* with the waveOut device it drives.                                      *)
(*                                                                         *)
(* Three execution contexts are modelled:                                  *)
(*   - the owner thread, which runs NoiseMaker::Create from the            *)
(*     constructor and later the destructor (Destroy / Stop / delete[]),   *)
(*   - the generation thread NoiseMaker::MainThread,                       *)
(*   - the device's callback thread, which plays the queued blocks in      *)
(*     FIFO order and calls NoiseMaker::waveOutProc with WOM_DONE.         *)
(* Every step is one shared-memory access or one library call of the       *)
(* source, so that every interleaving of the three contexts is explored.   *)
(***************************************************************************)
EXTENDS Integers, Naturals, Sequences, FiniteSets, TLC

\* ------------------------------------------------------------------ bounds
\* Create's nBlocks argument (the program's default is 8).
nBlocks == 2

\* Create's nBlockSamples argument (the program's default is 512).
nBlockSamples == 2

\* The generation thread starts at most this many blocks in one run.
MaxBlocks == 5

\* waveOutWrite fails on an open device at most this many times in one run.
MaxFail == 2

\* Number of threads that call HandleKeyDown, HandleKeyUp and SetWaveType.
nCallers == 2

\* HandleKeyDown, HandleKeyUp and SetWaveType are called at most this many
\* times in one run.
MaxCalls == 3

\* --------------------------------------------------------------- constants
\* std::atomic<unsigned int> m_nBlockFree is 32 bits wide and its arithmetic
\* is modulo 2^32.  The model holds the 32-bit pattern as the integer in
\* -2^31 .. 2^31 - 1 that is congruent to the unsigned value modulo 2^32:
\* an unsigned value v <= 2^31 - 1 is held as v, and a larger one as
\* v - 2^32 (so 2^32 - 1, the result of 0 - 1, is held as -1).
Int32Max == 2147483647

\* NoiseMaker's nSampleRate argument (AudioManager::Initialize passes none,
\* so the default applies): samples per second.
m_nSampleRate == 44100

\* namespace NoteFrequencies (AudioManager.cpp), in thousandths of a hertz.
NoteFrequencies_C4 == 261626
NoteFrequencies_D4 == 293665
NoteFrequencies_E4 == 329628
NoteFrequencies_F4 == 349228
NoteFrequencies_G4 == 392000
NoteFrequencies_A4 == 440000
NoteFrequencies_B4 == 493883
NoteFrequencies_C5 == 523250
NoteFrequencies_D5 == 587330
NoteFrequencies_E5 == 659250
NoteFrequencies_F5 == 698460
NoteFrequencies_G5 == 783990
NoteFrequencies_A5 == 880000
NoteFrequencies_B5 == 987770
NoteFrequencies_C6 == 1046500
NoteFrequencies_D6 == 1174660
NoteFrequencies_E6 == 1318510

\* namespace VirtualKeys (AudioManager.cpp): the virtual-key codes.
VirtualKeys_Q == 81
VirtualKeys_W == 87
VirtualKeys_E == 69
VirtualKeys_R == 82
VirtualKeys_T == 84
VirtualKeys_Y == 89
VirtualKeys_U == 85
VirtualKeys_I == 73
VirtualKeys_O == 79
VirtualKeys_P == 80
VirtualKeys_Z == 90
VirtualKeys_X == 88
VirtualKeys_C == 67
VirtualKeys_V == 86
VirtualKeys_B == 66
VirtualKeys_N == 78
VirtualKeys_M == 77

VARIABLES
    \* NoiseMaker fields
    m_bReady,         \* bool m_bReady
    m_nBlockFree,     \* std::atomic<unsigned int> m_nBlockFree
    m_nBlockCurrent,  \* unsigned int m_nBlockCurrent
    m_dGlobalTime,    \* std::atomic<double> m_dGlobalTime, in sample periods
    m_pBlockMemory,   \* "null", "allocated" or "deleted"
    prepared,         \* m_pWaveHeaders[b].dwFlags & WHDR_PREPARED
    muxOwner,         \* holder of m_muxBlockNotZero
    \* the waveOut device
    deviceOpen,       \* waveOutOpen succeeded on m_hwDevice
    queue,            \* blocks queued at the device (WHDR_INQUEUE), oldest first
    \* generation thread
    pc,               \* position of MainThread
    n,                \* loop variable n of the sample loop
    wokenBy,          \* what ended the last condition-variable wait
    \* callback thread
    cbPc,             \* position of waveOutProc
    \* owner thread
    ownerPc,          \* position of the thread that constructs and destroys
    \* history
    genLog,           \* blocks in the order MainThread started to fill them
    submitLog,        \* blocks in the order MainThread passed them to waveOutWrite
    nFailed,          \* number of waveOutWrite calls that failed on an open device
    fillsAfterStop,   \* blocks MainThread started to fill after Stop cleared m_bReady
    samplesAfterStop, \* samples written after Stop cleared m_bReady
    submitsAfterStop, \* waveOutWrite calls after Stop cleared m_bReady
    \* the waveOut device, continued
    deviceLost,       \* the device has become permanently unusable
    lostReported,     \* a waveOutWrite call has returned the device-lost error
    \* NoiseMaker::Create
    deviceFound,      \* "unknown", "yes", "no": sOutputDevice is in GetDevices()
    createResult,     \* "pending", "true", "false": the value Create returned
    \* AudioManager and App
    m_sound,          \* AudioManager::m_sound: "null" or "engine"
    initResult,       \* "pending", "true", "false": AudioManager::Initialize
    appResult,        \* "pending", "true", "false": App::Initialize
    window,           \* "none", "up", "down": the application window
    d3d,              \* "none", "up", "down": the D3DManager
    gui,              \* "none", "up", "down": the GuiManager
    \* AudioManager: the note registry and the waveform selection
    m_activeNotes,    \* std::unordered_map<WPARAM, double> m_activeNotes
    m_currentWaveType,\* WaveType m_currentWaveType
    notesOwner,       \* holder of m_notesMutex: Unlocked, GenThread or a caller
    \* caller threads
    callPc,           \* position of each caller in its current call
    callOp,           \* the call each caller is in
    nCalls,           \* number of calls begun
    \* MainThread inside the synthesis callback
    genPc,            \* "idle", "lock" or "sum": position in StaticNoiseCallback
    waveRead,         \* currentType, the waveform read for the sample
    toVisit,          \* keys the for loop over m_activeNotes has yet to visit
    summed,           \* keys whose oscillator is in dOutput
    dOutput,          \* double dOutput of MakeSineNoise / MakeSquareNoise
    \* history
    regAtLock,        \* m_activeNotes when the sample took m_notesMutex
    seqReg,           \* registry after the calls, applied in lock order
    seqWave,          \* waveform after the calls, applied in lock order
    lastCall,         \* the last call that returned
    hist,             \* per key: the last returned note calls
    onSince,          \* per key: note_on returned with no note_off in
                      \* progress, and no note_off has begun since
    offSince,         \* per key: note_off returned, no note_on in progress since
    capLit,           \* onSince when the sample began
    capSince,         \* onSince when the sample began, minus later note_offs
    capOff,           \* offSince when the sample began, minus later note_ons
    usedWaves,        \* waveforms of the oscillators summed into the sample
    wavesWritten,     \* the values SetWaveType calls have written
    \* NoiseMaker: sample generation
    m_userFunction,   \* double (*m_userFunction)(double): "null" or "callback"
    nMaxSample,       \* T nMaxSample of MainThread (0 before it is computed)
    blockData,        \* the samples in m_pBlockMemory, per block
    lastSample,       \* history: the sample MainThread wrote last
    \* the functions evaluated on their own
    fnArgs,           \* the arguments
    fnResult,         \* the result, as a sequence (empty before the evaluation)
    \* waveOutProc
    uMsg,             \* history: uMsg of the last waveOutProc call ("none": no call yet)
    \* AudioManager objects and the callback bridge
    life,             \* per AudioManager: "none", "alive" (constructed),
                      \* "running" (Initialize has created m_sound), "dying"
                      \* (~AudioManager has run its body, m_sound not yet
                      \* destroyed), "destroyed"
    s_instance,       \* static AudioManager* s_instance (Null or a manager)
    bridgePc,         \* per engine thread: position in StaticNoiseCallback
    bridgeRead,       \* per engine thread: s_instance as read by if (s_instance)
    derefed           \* history: what the last s_instance-> referred to

vars == <<m_bReady, m_nBlockFree, m_nBlockCurrent, m_dGlobalTime, m_pBlockMemory,
          prepared, muxOwner, deviceOpen, queue, pc, n, wokenBy, cbPc, ownerPc,
          genLog, submitLog, nFailed, fillsAfterStop, samplesAfterStop,
          submitsAfterStop, deviceLost, lostReported, deviceFound, createResult,
          m_sound, initResult, appResult, window, d3d, gui,
          m_activeNotes, m_currentWaveType, notesOwner, callPc, callOp, nCalls,
          genPc, waveRead, toVisit, summed, regAtLock, seqReg, seqWave,
          lastCall, hist, onSince, offSince, capLit, capSince, capOff,
          dOutput, usedWaves, wavesWritten, m_userFunction, nMaxSample,
          blockData, lastSample, fnArgs, fnResult, uMsg,
          life, s_instance, bridgePc, bridgeRead, derefed>>

engineVars == <<m_bReady, m_nBlockFree, m_nBlockCurrent, m_dGlobalTime,
                m_pBlockMemory, prepared>>
histVars == <<genLog, submitLog, nFailed, fillsAfterStop, samplesAfterStop,
              submitsAfterStop>>

lostVars == <<deviceLost, lostReported>>
createVars == <<deviceFound, createResult>>
appVars == <<m_sound, initResult, appResult, window, d3d, gui>>
registryVars == <<m_activeNotes, m_currentWaveType, notesOwner>>
callVars == <<callPc, callOp, nCalls>>
sampleVars == <<genPc, waveRead, toVisit, summed, regAtLock, dOutput,
                usedWaves>>
noteHistVars == <<seqReg, seqWave, lastCall, hist, onSince, offSince,
                  wavesWritten>>
captureVars == <<capLit, capSince, capOff>>
mixVars == <<registryVars, callVars, sampleVars, noteHistVars, captureVars>>
signalVars == <<m_userFunction, nMaxSample, blockData, lastSample>>
fnVars == <<fnArgs, fnResult>>
bridgeVars == <<life, s_instance, bridgePc, bridgeRead, derefed>>

\* The number of AudioManager objects constructed, one after the other or
\* side by side.
nManagers == 2

Managers == 1 .. nManagers

\* s_instance == nullptr
Null == 0

\* The largest number of wave-out devices of the system.
MaxDevices == 3

Blocks == 0 .. (nBlocks - 1)

\* ----------------------------------------------------------------- helpers
RECURSIVE SeqToSet(_)
SeqToSet(s) == IF s = <<>> THEN {} ELSE {Head(s)} \cup SeqToSet(Tail(s))

\* WHDR_INQUEUE of block b: the device holds it and has not completed it.
InFlight(b) == b \in SeqToSet(queue)

\* Stop has cleared m_bReady (the owner is in join or beyond).
Stopped == ownerPc \in {"join", "dtor", "destroyed"}

\* m_nBlockFree-- on an unsigned int
Decrement(x) == IF x = -Int32Max - 1 THEN Int32Max ELSE x - 1

\* m_nBlockFree++ on an unsigned int
Increment(x) == IF x = Int32Max THEN -Int32Max - 1 ELSE x + 1

\* IsCompletion of a waveOutProc that treats every message as a completion.
IsCompletion_Any(msg) == TRUE

\* waveOutProc: if (uMsg != WOM_DONE) return;
IsCompletion(msg) == msg = "WOM_DONE"

\* m_nBlockFree after a waveOutProc call with message msg.
FreeAfterCallback(msg, free) == IF IsCompletion(msg) THEN Increment(free) ELSE free

\* NextBlock with the modulus off by one: the last block is never used.
NextBlock_OffByOne(b) == (b + 1) % (nBlocks - 1)

\* m_nBlockCurrent++; m_nBlockCurrent %= m_nBlockCount;
NextBlock(b) == (b + 1) % nBlocks

\* LoopCondition of a loop that keeps going while blocks are free.
LoopCondition_Drain == m_bReady \/ m_nBlockFree # 0

\* while (m_bReady).  m_bReady is a plain bool that Stop writes from another
\* thread; the loop body holds atomic operations and library calls, so the
\* flag is loaded afresh at every test.
LoopCondition == m_bReady

\* if (m_nBlockFree == 0)
MustWait == m_nBlockFree = 0

\* HolderAfterWait of a lock declared outside the if block: MainThread keeps
\* m_muxBlockNotZero after the wait.
HolderAfterWait_Main == "main"

\* The holder of m_muxBlockNotZero when MainThread leaves the if block:
\* unique_lock lm is local to the block, so its destructor unlocks.
HolderAfterWait == "none"

\* --------------------------------------------------------------- registry
\* The threads that call into the AudioManager.
Callers == 1 .. nCallers

\* m_notesMutex held by nobody.
Unlocked == 0

\* The thread running MainThread, as a holder of m_notesMutex.
GenThread == nCallers + 1

\* A virtual-key code that MapNoteFrequency does not know (the A key).
UnmappedKey == 65

\* The keys the callers press and release.
KeysUsed == {VirtualKeys_Q, VirtualKeys_Z, UnmappedKey}

\* enum class WaveType
WaveType == {"Sine", "Square"}

\* The calls a caller can make.
Calls ==
    [op : {"down", "up"}, key : KeysUsed, wave : {"Sine"}]
        \cup [op : {"wave"}, key : {0}, wave : WaveType]

NoCall == [op |-> "none", key |-> 0, wave |-> "Sine"]

\* An empty std::unordered_map.
EmptyNotes == [k \in {} |-> 0]

\* MapNoteFrequency with the two rows of the keyboard exchanged.
MapNoteFrequency_RowsSwapped(wParam) ==
    CASE wParam = VirtualKeys_Q -> NoteFrequencies_C4
      [] wParam = VirtualKeys_W -> NoteFrequencies_D4
      [] wParam = VirtualKeys_E -> NoteFrequencies_E4
      [] wParam = VirtualKeys_R -> NoteFrequencies_F4
      [] wParam = VirtualKeys_T -> NoteFrequencies_G4
      [] wParam = VirtualKeys_Y -> NoteFrequencies_A4
      [] wParam = VirtualKeys_U -> NoteFrequencies_B4
      [] wParam = VirtualKeys_Z -> NoteFrequencies_C5
      [] wParam = VirtualKeys_X -> NoteFrequencies_D5
      [] wParam = VirtualKeys_C -> NoteFrequencies_E5
      [] wParam = VirtualKeys_V -> NoteFrequencies_F5
      [] wParam = VirtualKeys_B -> NoteFrequencies_G5
      [] wParam = VirtualKeys_N -> NoteFrequencies_A5
      [] wParam = VirtualKeys_M -> NoteFrequencies_B5
      [] OTHER -> 0

\* AudioManager::MapNoteFrequency: the frequency stored for a key, and 0
\* for an unknown key, for which it returns without storing anything.
MapNoteFrequency(wParam) ==
    CASE wParam = VirtualKeys_Q -> NoteFrequencies_C5
      [] wParam = VirtualKeys_W -> NoteFrequencies_D5
      [] wParam = VirtualKeys_E -> NoteFrequencies_E5
      [] wParam = VirtualKeys_R -> NoteFrequencies_F5
      [] wParam = VirtualKeys_T -> NoteFrequencies_G5
      [] wParam = VirtualKeys_Y -> NoteFrequencies_A5
      [] wParam = VirtualKeys_U -> NoteFrequencies_B5
      [] wParam = VirtualKeys_I -> NoteFrequencies_C6
      [] wParam = VirtualKeys_O -> NoteFrequencies_D6
      [] wParam = VirtualKeys_P -> NoteFrequencies_E6
      [] wParam = VirtualKeys_Z -> NoteFrequencies_C4
      [] wParam = VirtualKeys_X -> NoteFrequencies_D4
      [] wParam = VirtualKeys_C -> NoteFrequencies_E4
      [] wParam = VirtualKeys_V -> NoteFrequencies_F4
      [] wParam = VirtualKeys_B -> NoteFrequencies_G4
      [] wParam = VirtualKeys_N -> NoteFrequencies_A4
      [] wParam = VirtualKeys_M -> NoteFrequencies_B4
      [] OTHER -> 0

\* IsMapped of a MapNoteFrequency without the final else return: the key is
\* stored with noteFreq as initialised, 0.0.
IsMapped_Any(wParam) == TRUE

\* The keys MapNoteFrequency knows.
IsMapped(wParam) == MapNoteFrequency(wParam) # 0

\* ShouldMap with the test inverted.
ShouldMap_Inverted(notes, wParam) == wParam \in DOMAIN notes

\* HandleKeyDown: if (m_activeNotes.find(wParam) == m_activeNotes.end())
ShouldMap(notes, wParam) == wParam \notin DOMAIN notes

\* MapNoteFrequency: m_activeNotes[wParam] = noteFreq;
Insert(notes, wParam, noteFreq) ==
    [k \in DOMAIN notes \cup {wParam} |->
        IF k = wParam THEN noteFreq ELSE notes[k]]

\* Erase that removes nothing.
Erase_Nothing(notes, wParam) == notes

\* Erase that empties the map.
Erase_All(notes, wParam) == EmptyNotes

\* HandleKeyUp: m_activeNotes.erase(wParam);
Erase(notes, wParam) == [k \in DOMAIN notes \ {wParam} |-> notes[k]]

\* HandleKeyDown as a whole, on a registry nobody else touches.
KeyDown(notes, wParam) ==
    IF ShouldMap(notes, wParam) /\ IsMapped(wParam)
    THEN Insert(notes, wParam, MapNoteFrequency(wParam))
    ELSE notes

\* CanLockNotes of a mutex that excludes nobody.
CanLockNotes_NoMutex == TRUE

\* std::lock_guard<std::mutex> lock(m_notesMutex) can be entered.
CanLockNotes == notesOwner = Unlocked

\* Another caller is inside a call with this operation on this key.
InProgress(t, op, k) ==
    \E u \in Callers \ {t} :
        callPc[u] # "idle" /\ callOp[u].op = op /\ callOp[u].key = k

\* The initial AudioManager: no note, WaveType::Sine, nobody calling.
MixVarsInit ==
    /\ m_activeNotes = EmptyNotes
    /\ m_currentWaveType = "Sine"
    /\ notesOwner = Unlocked
    /\ callPc = [t \in Callers |-> "idle"]
    /\ callOp = [t \in Callers |-> NoCall]
    /\ nCalls = 0
    /\ genPc = "idle"
    /\ waveRead = "Sine"
    /\ toVisit = {}
    /\ summed = {}
    /\ regAtLock = EmptyNotes
    /\ seqReg = EmptyNotes
    /\ seqWave = "Sine"
    /\ lastCall = [call |-> NoCall, had |-> FALSE]
    /\ hist = [k \in KeysUsed |-> "none"]
    /\ onSince = [k \in KeysUsed |-> FALSE]
    /\ offSince = [k \in KeysUsed |-> FALSE]
    /\ capLit = {}
    /\ capSince = {}
    /\ capOff = {}
    /\ dOutput = 0
    /\ usedWaves = {}
    /\ wavesWritten = {}

\* ------------------------------------------------------------------ signal
\* Amplitudes are held in thousandths: the model's integer for the double 1.0.
FullScale == 1000

\* Times are held as a number of sample periods (dTimeStep = 1 / m_nSampleRate)
\* and frequencies in thousandths of a hertz, so freq * dTime counts periods
\* of the wave in units of 1 / PhaseUnits.
PhaseUnits == 1000 * m_nSampleRate

\* fmod(freq * dTime, 1.0), in units of 1 / PhaseUnits.
Phase(freq, dTime) == (freq * dTime) % PhaseUnits

\* sin of d degrees (d in 0 .. 359) in thousandths, by Bhaskara's formula
\* 4h(180 - h) / (40500 - h(180 - h)), to an even number of thousandths.
SinDegrees(d) ==
    LET h == IF d < 180 THEN d ELSE d - 180
        p == h * (180 - h)
        v == 2 * ((2000 * p) \div (40500 - p))
    IN  IF d < 180 THEN v ELSE -v

\* SineSoundMaker: return sin(freq * TWO_PI * dTime); to a whole degree.
SineSoundMaker(freq, dTime) ==
    SinDegrees(Phase(freq, dTime) \div (PhaseUnits \div 360))

\* SquareSoundMaker with the two halves of the period exchanged.
SquareSoundMaker_Inverted(freq, dTime) ==
    IF 2 * Phase(freq, dTime) < PhaseUnits THEN -FullScale ELSE FullScale

\* SquareSoundMaker: phase = fmod(freq * dTime, 1.0);
\*                   return (phase < 0.5) ? 1.0 : -1.0;
SquareSoundMaker(freq, dTime) ==
    IF 2 * Phase(freq, dTime) < PhaseUnits THEN FullScale ELSE -FullScale

\* The oscillator MakeSineNoise (SineSoundMaker) or MakeSquareNoise
\* (SquareSoundMaker) adds for one note.
Oscillator(wave, freq, dTime) ==
    IF wave = "Sine" THEN SineSoundMaker(freq, dTime)
    ELSE SquareSoundMaker(freq, dTime)

\* NoteWave that reads m_currentWaveType again for every note.
NoteWave_Reread(currentType, field) == field

\* The waveform a note of the sample is rendered with: StaticNoiseCallback
\* calls MakeSineNoise or MakeSquareNoise by its local currentType, and the
\* function called renders every note.
NoteWave(currentType, field) == currentType

\* Attenuate that leaves the sum as it is.
Attenuate_Missing(sum) == sum

\* return dOutput * 0.5;  (every oscillator value is even, so is the sum)
Attenuate(sum) == sum \div 2

\* The sum of the oscillators of the notes with the keys in keys.
RECURSIVE SumNotes(_, _, _, _)
SumNotes(wave, notes, keys, dTime) ==
    IF keys = {} THEN 0
    ELSE LET k == CHOOSE x \in keys : TRUE
         IN  Oscillator(wave, notes[k], dTime)
                 + SumNotes(wave, notes, keys \ {k}, dTime)

\* StaticNoiseCallback as a function of what it reads: 0.0 without an
\* instance, else MakeSineNoise / MakeSquareNoise by the waveform.
NoiseCallback(instance, wave, notes, dTime) ==
    IF instance = "null" THEN 0
    ELSE Attenuate(SumNotes(wave, notes, DOMAIN notes, dTime))

\* AdvanceClock that leaves the clock where it is.
AdvanceClock_Stuck(dTime) == dTime

\* AdvanceClock that subtracts the time step.
AdvanceClock_Backwards(dTime) == dTime - 1

\* m_dGlobalTime = m_dGlobalTime + dTimeStep; in sample periods.
AdvanceClock(dTime) == dTime + 1

\* NotesAfterSetWave of a SetWaveType that silences the held notes.
NotesAfterSetWave_Cleared(notes) == EmptyNotes

\* m_activeNotes after SetWaveType, which assigns m_currentWaveType only.
NotesAfterSetWave(notes) == notes

\* InitialOutput of a sum that is not started afresh for every sample.
InitialOutput_Carried == dOutput

\* MakeSineNoise / MakeSquareNoise: double dOutput = 0.0;
InitialOutput == 0

\* virtual double UserProcess(double dTime) { return 0.0; }
UserProcess(dTime) == 0

\* UsesCallback with the test turned round.
UsesCallback_Inverted(func) == func = "null"

\* MainThread: if (m_userFunction == nullptr) ... else ...
UsesCallback(func) == func # "null"

\* clip without the lower limit.
clip_UpperOnly(dSample, dMax) == IF dSample > dMax THEN dMax ELSE dSample

\* clip: if (dSample >= 0.0) return fmin(dSample, dMax);
\*       else return fmax(dSample, -dMax);
clip(dSample, dMax) ==
    IF dSample >= 0
    THEN (IF dSample < dMax THEN dSample ELSE dMax)
    ELSE (IF dSample > -dMax THEN dSample ELSE -dMax)

\* T nMaxSample = (T)pow(2, (sizeof(T) * 8) - 1) - 1; with T = int.
\* pow gives 2^31, which no int holds, so the conversion is undefined: a
\* build whose conversion yields the most negative int and whose
\* subtraction wraps gets 2^31 - 1, a build whose conversion saturates
\* gets 2^31 - 2.
MaxSampleOutcomes == {Int32Max, Int32Max - 1}

\* (T)(dSample * dMaxSample): the product, truncated towards zero.
\* dSample is an amplitude within -FullScale .. FullScale.
Quantize(dSample, dMaxSample) ==
    LET a == IF dSample >= 0 THEN dSample ELSE -dSample
        q == a * (dMaxSample \div FullScale)
                 + (a * (dMaxSample % FullScale)) \div FullScale
    IN  IF dSample >= 0 THEN q ELSE -q

\* nNewSample = (T)(clip(..., 1.0) * dMaxSample);
NewSample(dSample, dMaxSample) == Quantize(clip(dSample, FullScale), dMaxSample)

\* MainThread's sample for one clock value, as a function of what it reads:
\* m_userFunction, s_instance, the waveform, the registry, the clock and
\* nMaxSample.
GenerateSample(func, instance, wave, notes, dTime, dMaxSample) ==
    IF UsesCallback(func)
    THEN NewSample(NoiseCallback(instance, wave, notes, dTime), dMaxSample)
    ELSE NewSample(UserProcess(dTime), dMaxSample)

\* The registry after HandleKeyDown for every key in keys.
RECURSIVE PressAll(_, _)
PressAll(notes, keys) ==
    IF keys = {} THEN notes
    ELSE LET k == CHOOSE x \in keys : TRUE
         IN  PressAll(KeyDown(notes, k), keys \ {k})

\* The keys held when a sample is evaluated on its own: Z, C, B (the C4
\* major triad C4, E4, G4) and Q (C5).
FnKeys == {VirtualKeys_Z, VirtualKeys_C, VirtualKeys_B, VirtualKeys_Q}

\* The clock values, in sample periods, at which a sample is evaluated on
\* its own; C5 is in the second half of its period at 43 and at 60.
FnTimes == {0, 1, 2, 3, 43, 60}

\* The keys HandleKeyDown is evaluated with on its own: the 17 keys of
\* namespace VirtualKeys and one key that is not among them.
FnAllKeys ==
    {VirtualKeys_Q, VirtualKeys_W, VirtualKeys_E, VirtualKeys_R, VirtualKeys_T,
     VirtualKeys_Y, VirtualKeys_U, VirtualKeys_I, VirtualKeys_O, VirtualKeys_P,
     VirtualKeys_Z, VirtualKeys_X, VirtualKeys_C, VirtualKeys_V, VirtualKeys_B,
     VirtualKeys_N, VirtualKeys_M, UnmappedKey}

\* No function is evaluated.
NoArgs ==
    [fn |-> "none", func |-> "null", instance |-> "null", wave |-> "Sine",
     keys |-> {}, dTime |-> 0, max |-> 0, x |-> 0, caps |-> <<>>]

\* GetDevices: the names of the devices whose waveOutGetDevCaps call
\* succeeds, in the order of their device ids.  caps[n + 1] tells whether
\* the call for device id n succeeds; the name of device id n is n.
GetDevices(caps) ==
    SelectSeq([i \in 1 .. Len(caps) |-> i - 1], LAMBDA name : caps[name + 1])

\* Create: d = std::find(devices.begin(), devices.end(), sOutputDevice);
\* nDeviceID = distance(devices.begin(), d); -1 stands for d == end().
DeviceID(devices, sOutputDevice) ==
    IF \E i \in 1 .. Len(devices) : devices[i] = sOutputDevice
    THEN (CHOOSE i \in 1 .. Len(devices) :
             /\ devices[i] = sOutputDevice
             /\ \A j \in 1 .. (i - 1) : devices[j] # sOutputDevice) - 1
    ELSE -1

\* The outcomes of waveOutGetDevCaps for the devices of a system with one
\* device up to MaxDevices devices.
FnCaps ==
    UNION {[1 .. len -> BOOLEAN] : len \in 1 .. MaxDevices}

\* The frequencies, in thousandths of a hertz, SquareSoundMaker is
\* evaluated with on its own: 0.001 Hz, C4, A4, C5, a quarter of the sample
\* rate and half the sample rate (whose phase at an odd sample is exactly
\* one half).
FnFrequencies ==
    {1, NoteFrequencies_C4, NoteFrequencies_A4, NoteFrequencies_C5,
     250 * m_nSampleRate, 500 * m_nSampleRate}

\* The values, in thousandths, the synthesis callback returns when the
\* quantization is evaluated on its own: within, at and beyond -1.0 and 1.0.
FnAmplitudes ==
    {-2000, -1500, -1001, -1000, -999, -500, -1, 0, 1, 500, 999, 1000, 1001,
     1500, 2000}

\* The arguments of the evaluations: a sample of MainThread, and
\* HandleKeyDown for one key or two on an empty registry.
FnInputs ==
    [fn : {"sample"}, func : {"null", "callback"}, instance : {"null", "this"},
     wave : WaveType, keys : SUBSET FnKeys, dTime : FnTimes,
     max : MaxSampleOutcomes, x : {0}, caps : {<<>>}]
    \cup
    [fn : {"keydown"}, func : {"null"}, instance : {"null"}, wave : {"Sine"},
     keys : {ks \in SUBSET FnAllKeys : Cardinality(ks) \in {1, 2}},
     dTime : {0}, max : {0}, x : {0}, caps : {<<>>}]
    \cup
    \* Create for the name of device id x
    {a \in [fn : {"open"}, func : {"null"}, instance : {"null"},
            wave : {"Sine"}, keys : {{}}, dTime : {0}, max : {0},
            x : 0 .. (MaxDevices - 1), caps : FnCaps] :
        a.x < Len(a.caps)}
    \cup
    \* SquareSoundMaker(x, dTime)
    [fn : {"square"}, func : {"null"}, instance : {"null"}, wave : {"Square"},
     keys : {{}}, dTime : FnTimes, max : {0}, x : FnFrequencies,
     caps : {<<>>}]
    \cup
    \* (T)(clip(x, 1.0) * dMaxSample)
    [fn : {"quantize"}, func : {"null"}, instance : {"null"}, wave : {"Sine"},
     keys : {{}}, dTime : {0}, max : MaxSampleOutcomes, x : FnAmplitudes,
     caps : {<<>>}]

\* The positions of the samples of one block.
Positions == 0 .. (nBlockSamples - 1)

\* ------------------------------------------------------------------- Init
\* The state at the entry of App::Initialize.  The NoiseMaker fields, which
\* do not exist before Create, already hold the values Create assigns first.
ProgramInit ==
    /\ m_bReady = FALSE
    /\ m_nBlockFree = nBlocks
    /\ m_nBlockCurrent = 0
    /\ m_dGlobalTime = 0
    /\ m_pBlockMemory = "null"
    /\ prepared = [b \in Blocks |-> FALSE]
    /\ muxOwner = "none"
    /\ deviceOpen = FALSE
    /\ queue = <<>>
    /\ pc = "notStarted"
    /\ n = 0
    /\ wokenBy = "none"
    /\ cbPc = "idle"
    /\ ownerPc = "window"
    /\ genLog = <<>>
    /\ submitLog = <<>>
    /\ nFailed = 0
    /\ fillsAfterStop = 0
    /\ samplesAfterStop = 0
    /\ submitsAfterStop = 0
    /\ deviceLost = FALSE
    /\ lostReported = FALSE
    /\ deviceFound = "unknown"
    /\ createResult = "pending"
    /\ m_sound = "null"
    /\ initResult = "pending"
    /\ appResult = "pending"
    /\ window = "none"
    /\ d3d = "none"
    /\ gui = "none"
    /\ MixVarsInit
    /\ m_userFunction = "null"
    /\ nMaxSample = 0
    /\ blockData = [b \in Blocks |-> [i \in Positions |-> 0]]
    /\ lastSample = [by |-> "none", t |-> 0, value |-> 0]
    /\ uMsg = "none"

\* No AudioManager has been constructed: s_instance = nullptr.
BridgeVarsInit ==
    /\ life = [i \in Managers |-> "none"]
    /\ s_instance = Null
    /\ bridgePc = [i \in Managers |-> "idle"]
    /\ bridgeRead = [i \in Managers |-> Null]
    /\ derefed = "none"

\* The program from its start; no function is evaluated on its own.
Init ==
    /\ ProgramInit
    /\ fnArgs = NoArgs
    /\ fnResult = <<>>
    /\ BridgeVarsInit

\* ------------------------------------------------------------ owner thread
\* App::Initialize: if (!CreateAppWindow()) return false;
AppCreateWindow ==
    /\ ownerPc = "window"
    /\ \E ok \in BOOLEAN :
         IF ok
         THEN window' = "up" /\ ownerPc' = "d3d" /\ UNCHANGED appResult
         ELSE UNCHANGED window /\ ownerPc' = "exit" /\ appResult' = "false"
    /\ UNCHANGED engineVars
    /\ UNCHANGED <<muxOwner, deviceOpen, queue, pc, n, wokenBy, cbPc>>
    /\ UNCHANGED histVars
    /\ UNCHANGED <<lostVars, createVars, m_sound, initResult, d3d, gui>>
    /\ UNCHANGED mixVars
    /\ UNCHANGED <<signalVars, fnVars, bridgeVars, uMsg>>

\* App::Initialize: if (!m_d3dManager->Initialize())
\*                     { CleanupAppWindow(); return false; }
AppInitD3D ==
    /\ ownerPc = "d3d"
    /\ \E ok \in BOOLEAN :
         IF ok
         THEN d3d' = "up" /\ ownerPc' = "gui" /\ UNCHANGED <<window, appResult>>
         ELSE /\ window' = "down"
              /\ ownerPc' = "exit"
              /\ appResult' = "false"
              /\ UNCHANGED d3d
    /\ UNCHANGED engineVars
    /\ UNCHANGED <<muxOwner, deviceOpen, queue, pc, n, wokenBy, cbPc>>
    /\ UNCHANGED histVars
    /\ UNCHANGED <<lostVars, createVars, m_sound, initResult, gui>>
    /\ UNCHANGED mixVars
    /\ UNCHANGED <<signalVars, fnVars, bridgeVars, uMsg>>

\* App::Initialize: m_guiManager->Initialize(), which always returns true;
\* then m_audioManager = std::make_unique<AudioManager>().
AppInitGui ==
    /\ ownerPc = "gui"
    /\ gui' = "up"
    /\ ownerPc' = "audio"
    /\ UNCHANGED engineVars
    /\ UNCHANGED <<muxOwner, deviceOpen, queue, pc, n, wokenBy, cbPc>>
    /\ UNCHANGED histVars
    /\ UNCHANGED <<lostVars, createVars, m_sound, initResult, appResult,
                   window, d3d>>
    /\ UNCHANGED mixVars
    /\ UNCHANGED <<signalVars, fnVars, bridgeVars, uMsg>>

\* AudioManager::Initialize: devices = GetDevices();
\* if (devices.empty()) return false;  else the NoiseMaker is constructed.
AudioInitialize ==
    /\ ownerPc = "audio"
    /\ \E empty \in BOOLEAN :
         IF empty
         THEN initResult' = "false" /\ ownerPc' = "cleanup"
         ELSE UNCHANGED initResult /\ ownerPc' = "create"
    /\ UNCHANGED engineVars
    /\ UNCHANGED <<muxOwner, deviceOpen, queue, pc, n, wokenBy, cbPc>>
    /\ UNCHANGED histVars
    /\ UNCHANGED <<lostVars, createVars, m_sound, appResult, window, d3d, gui>>
    /\ UNCHANGED mixVars
    /\ UNCHANGED <<signalVars, fnVars, bridgeVars, uMsg>>

\* AudioFailureCleanup that forgets the GUI.
AudioFailureCleanup_NoGui == [gui |-> gui, d3d |-> "down", window |-> "down"]

\* App::Initialize, when m_audioManager->Initialize() returned false:
\* m_guiManager->Shutdown(); m_d3dManager->Shutdown(); CleanupAppWindow();
AudioFailureCleanup == [gui |-> "down", d3d |-> "down", window |-> "down"]

\* App::Initialize: if (!m_audioManager->Initialize()) { ...; return false; }
AppAudioFailed ==
    /\ ownerPc = "cleanup"
    /\ gui' = AudioFailureCleanup.gui
    /\ d3d' = AudioFailureCleanup.d3d
    /\ window' = AudioFailureCleanup.window
    /\ appResult' = "false"
    /\ ownerPc' = "exit"
    /\ UNCHANGED engineVars
    /\ UNCHANGED <<muxOwner, deviceOpen, queue, pc, n, wokenBy, cbPc>>
    /\ UNCHANGED histVars
    /\ UNCHANGED <<lostVars, createVars, m_sound, initResult>>
    /\ UNCHANGED mixVars
    /\ UNCHANGED <<signalVars, fnVars, bridgeVars, uMsg>>

\* AudioManager::Initialize after the constructor has returned (the value
\* Create returned is dropped by the constructor): m_sound holds the
\* engine, SetUserFunction, return true;  App::Initialize: return true.
AudioInitReturn ==
    /\ ownerPc = "initReturn"
    /\ m_sound' = "engine"
    /\ initResult' = "true"
    /\ appResult' = "true"
    /\ ownerPc' = "live"
    /\ m_userFunction' = "callback"
    /\ UNCHANGED engineVars
    /\ UNCHANGED <<muxOwner, deviceOpen, queue, pc, n, wokenBy, cbPc>>
    /\ UNCHANGED histVars
    /\ UNCHANGED <<lostVars, createVars, window, d3d, gui>>
    /\ UNCHANGED mixVars
    /\ UNCHANGED <<nMaxSample, blockData, lastSample, fnVars, bridgeVars, uMsg>>

\* The output device becomes permanently unusable during playback.
DeviceLost ==
    /\ deviceOpen
    /\ ~deviceLost
    /\ pc \notin {"notStarted", "done"}
    /\ deviceLost' = TRUE
    /\ UNCHANGED engineVars
    /\ UNCHANGED <<muxOwner, deviceOpen, queue, pc, n, wokenBy, cbPc, ownerPc>>
    /\ UNCHANGED histVars
    /\ UNCHANGED <<lostReported, createVars, appVars>>
    /\ UNCHANGED mixVars
    /\ UNCHANGED <<signalVars, fnVars, bridgeVars, uMsg>>

\* Create: device lookup, waveOutOpen, allocation, m_bReady = true.
\* found: the requested name is in GetDevices(); opened: waveOutOpen == S_OK.
\* A waveOutOpen that opens the device calls waveOutProc with WOM_OPEN
\* before it returns.
CreateOpen ==
    /\ ownerPc = "create"
    /\ \E found \in BOOLEAN, opened \in BOOLEAN :
         /\ deviceFound' = IF found THEN "yes" ELSE "no"
         /\ IF found /\ ~opened
            THEN \* return Destroy(): m_bReady is false, so Stop is not
                 \* called, and Destroy returns false
                 /\ ownerPc' = "initReturn"
                 /\ createResult' = "false"
                 /\ UNCHANGED <<m_bReady, m_pBlockMemory, deviceOpen,
                                m_nBlockFree, uMsg>>
            ELSE /\ deviceOpen' = found
                 /\ IF found
                    THEN /\ uMsg' = "WOM_OPEN"
                         /\ m_nBlockFree' = FreeAfterCallback("WOM_OPEN",
                                                              m_nBlockFree)
                    ELSE UNCHANGED <<m_nBlockFree, uMsg>>
                 /\ m_pBlockMemory' = "allocated"
                 /\ m_bReady' = TRUE
                 /\ ownerPc' = "spawn"
                 /\ UNCHANGED createResult
    /\ UNCHANGED <<m_nBlockCurrent, m_dGlobalTime, prepared,
                   muxOwner, queue, pc, n, wokenBy, cbPc>>
    /\ UNCHANGED histVars
    /\ UNCHANGED <<lostVars, appVars>>
    /\ UNCHANGED mixVars
    /\ UNCHANGED <<signalVars, fnVars, bridgeVars>>

\* m_thread = std::thread(&NoiseMaker::MainThread, this);
CreateSpawn ==
    /\ ownerPc = "spawn"
    /\ ownerPc' = "lock"
    /\ pc' = "start"
    /\ UNCHANGED engineVars
    /\ UNCHANGED <<muxOwner, deviceOpen, queue, n, wokenBy, cbPc>>
    /\ UNCHANGED histVars
    /\ UNCHANGED <<lostVars, createVars, appVars, mixVars>>
    /\ UNCHANGED <<signalVars, fnVars, bridgeVars, uMsg>>

\* std::unique_lock<std::mutex> lm(m_muxBlockNotZero);
CreateLock ==
    /\ ownerPc = "lock"
    /\ muxOwner = "none"
    /\ muxOwner' = "create"
    /\ ownerPc' = "notify"
    /\ UNCHANGED engineVars
    /\ UNCHANGED <<deviceOpen, queue, pc, n, wokenBy, cbPc>>
    /\ UNCHANGED histVars
    /\ UNCHANGED <<lostVars, createVars, appVars, mixVars>>
    /\ UNCHANGED <<signalVars, fnVars, bridgeVars, uMsg>>

\* m_cvBlockNotZero.notify_one(); return true;  (lm is released)
CreateNotify ==
    /\ ownerPc = "notify"
    /\ muxOwner = "create"
    /\ muxOwner' = "none"
    /\ ownerPc' = "initReturn"
    /\ createResult' = "true"
    /\ IF pc = "blocked"
       THEN pc' = "woken" /\ wokenBy' = "create"
       ELSE UNCHANGED <<pc, wokenBy>>
    /\ UNCHANGED engineVars
    /\ UNCHANGED <<deviceOpen, queue, n, cbPc>>
    /\ UNCHANGED histVars
    /\ UNCHANGED <<lostVars, deviceFound, appVars>>
    /\ UNCHANGED mixVars
    /\ UNCHANGED <<signalVars, fnVars, bridgeVars, uMsg>>

\* ~NoiseMaker -> Destroy: if (m_bReady) Stop();  Stop: m_bReady = false;
Stop ==
    /\ ownerPc = "live"
    /\ IF m_bReady
       THEN m_bReady' = FALSE /\ ownerPc' = "join"
       ELSE UNCHANGED m_bReady /\ ownerPc' = "dtor"
    /\ UNCHANGED <<m_nBlockFree, m_nBlockCurrent, m_dGlobalTime, m_pBlockMemory,
                   prepared, muxOwner, deviceOpen, queue, pc, n, wokenBy, cbPc>>
    /\ UNCHANGED histVars
    /\ UNCHANGED <<lostVars, createVars, appVars, mixVars>>
    /\ UNCHANGED <<signalVars, fnVars, bridgeVars, uMsg>>

\* Stop: m_thread.join();
Join ==
    /\ ownerPc = "join"
    /\ pc = "done"
    /\ ownerPc' = "dtor"
    /\ UNCHANGED engineVars
    /\ UNCHANGED <<muxOwner, deviceOpen, queue, pc, n, wokenBy, cbPc>>
    /\ UNCHANGED histVars
    /\ UNCHANGED <<lostVars, createVars, appVars, mixVars>>
    /\ UNCHANGED <<signalVars, fnVars, bridgeVars, uMsg>>

\* ~NoiseMaker: delete[] m_pBlockMemory; delete[] m_pWaveHeaders;
DeleteBlocks ==
    /\ ownerPc = "dtor"
    /\ ownerPc' = "destroyed"
    /\ m_pBlockMemory' = IF m_pBlockMemory = "allocated" THEN "deleted"
                         ELSE m_pBlockMemory
    /\ UNCHANGED <<m_bReady, m_nBlockFree, m_nBlockCurrent, m_dGlobalTime,
                   prepared, muxOwner, deviceOpen, queue, pc, n, wokenBy, cbPc>>
    /\ UNCHANGED histVars
    /\ UNCHANGED <<lostVars, createVars, appVars, mixVars>>
    /\ UNCHANGED <<signalVars, fnVars, bridgeVars, uMsg>>

\* ------------------------------------------------------- generation thread
\* MainThread: m_dGlobalTime = 0.0; dTimeStep = 1.0 / m_nSampleRate;
\* nMaxSample = (T)pow(2, (sizeof(T) * 8) - 1) - 1; dMaxSample = nMaxSample;
ThreadStart ==
    /\ pc = "start"
    /\ pc' = "loop"
    /\ m_dGlobalTime' = 0
    /\ nMaxSample' \in MaxSampleOutcomes
    /\ UNCHANGED <<m_bReady, m_nBlockFree, m_nBlockCurrent, m_pBlockMemory,
                   prepared, muxOwner, deviceOpen, queue, n, wokenBy, cbPc,
                   ownerPc>>
    /\ UNCHANGED histVars
    /\ UNCHANGED <<lostVars, createVars, appVars, mixVars>>
    /\ UNCHANGED <<m_userFunction, blockData, lastSample, fnVars, bridgeVars, uMsg>>

\* while (m_bReady)
ThreadLoop ==
    /\ pc = "loop"
    /\ IF LoopCondition
       THEN /\ Len(genLog) < MaxBlocks
            /\ pc' = "check"
       ELSE pc' = "done"
    /\ UNCHANGED engineVars
    /\ UNCHANGED <<muxOwner, deviceOpen, queue, n, wokenBy, cbPc, ownerPc>>
    /\ UNCHANGED histVars
    /\ UNCHANGED <<lostVars, createVars, appVars, mixVars>>
    /\ UNCHANGED <<signalVars, fnVars, bridgeVars, uMsg>>

\* if (m_nBlockFree == 0)
ThreadCheck ==
    /\ pc = "check"
    /\ pc' = IF MustWait THEN "lock" ELSE "decrement"
    /\ UNCHANGED engineVars
    /\ UNCHANGED <<muxOwner, deviceOpen, queue, n, wokenBy, cbPc, ownerPc>>
    /\ UNCHANGED histVars
    /\ UNCHANGED <<lostVars, createVars, appVars, mixVars>>
    /\ UNCHANGED <<signalVars, fnVars, bridgeVars, uMsg>>

\* std::unique_lock<std::mutex> lm(m_muxBlockNotZero);
ThreadLock ==
    /\ pc = "lock"
    /\ muxOwner = "none"
    /\ muxOwner' = "main"
    /\ pc' = "wait"
    /\ UNCHANGED engineVars
    /\ UNCHANGED <<deviceOpen, queue, n, wokenBy, cbPc, ownerPc>>
    /\ UNCHANGED histVars
    /\ UNCHANGED <<lostVars, createVars, appVars, mixVars>>
    /\ UNCHANGED <<signalVars, fnVars, bridgeVars, uMsg>>

\* m_cvBlockNotZero.wait(lm): releases the mutex and blocks, atomically.
ThreadWait ==
    /\ pc = "wait"
    /\ muxOwner = "main"
    /\ muxOwner' = "none"
    /\ pc' = "blocked"
    /\ UNCHANGED engineVars
    /\ UNCHANGED <<deviceOpen, queue, n, wokenBy, cbPc, ownerPc>>
    /\ UNCHANGED histVars
    /\ UNCHANGED <<lostVars, createVars, appVars, mixVars>>
    /\ UNCHANGED <<signalVars, fnVars, bridgeVars, uMsg>>

\* wait(lm) has no predicate: std::condition_variable::wait may also
\* return without any notify (a spurious wake-up).
SpuriousWakeup ==
    /\ pc = "blocked"
    /\ pc' = "woken"
    /\ wokenBy' = "spurious"
    /\ UNCHANGED engineVars
    /\ UNCHANGED <<muxOwner, deviceOpen, queue, n, cbPc, ownerPc>>
    /\ UNCHANGED histVars
    /\ UNCHANGED <<lostVars, createVars, appVars, mixVars>>
    /\ UNCHANGED <<signalVars, fnVars, bridgeVars, uMsg>>

\* wait(lm) returns: the mutex is re-acquired, then released at the end of
\* the if block.
ThreadWake ==
    /\ pc = "woken"
    /\ muxOwner = "none"
    /\ muxOwner' = HolderAfterWait
    /\ pc' = "decrement"
    /\ UNCHANGED engineVars
    /\ UNCHANGED <<deviceOpen, queue, n, wokenBy, cbPc, ownerPc>>
    /\ UNCHANGED histVars
    /\ UNCHANGED <<lostVars, createVars, appVars, mixVars>>
    /\ UNCHANGED <<signalVars, fnVars, bridgeVars, uMsg>>

\* m_nBlockFree--;
ThreadDecrement ==
    /\ pc = "decrement"
    /\ m_nBlockFree' = Decrement(m_nBlockFree)
    /\ pc' = "unprepare"
    /\ UNCHANGED <<m_bReady, m_nBlockCurrent, m_dGlobalTime, m_pBlockMemory,
                   prepared, muxOwner, deviceOpen, queue, n, wokenBy, cbPc,
                   ownerPc>>
    /\ UNCHANGED histVars
    /\ UNCHANGED <<lostVars, createVars, appVars, mixVars>>
    /\ UNCHANGED <<signalVars, fnVars, bridgeVars, uMsg>>

\* if (dwFlags & WHDR_PREPARED) waveOutUnprepareHeader(...);
\* the call fails with WAVERR_STILLPLAYING, and leaves the flag, while the
\* block is queued.  Then T nNewSample = 0; nCurrentBlock = ...; n = 0.
ThreadUnprepare ==
    /\ pc = "unprepare"
    /\ prepared' = IF prepared[m_nBlockCurrent] /\ ~InFlight(m_nBlockCurrent)
                   THEN [prepared EXCEPT ![m_nBlockCurrent] = FALSE]
                   ELSE prepared
    /\ n' = 0
    /\ pc' = "fill"
    /\ genLog' = Append(genLog, m_nBlockCurrent)
    /\ fillsAfterStop' = IF Stopped THEN fillsAfterStop + 1 ELSE fillsAfterStop
    /\ UNCHANGED <<m_bReady, m_nBlockFree, m_nBlockCurrent, m_dGlobalTime,
                   m_pBlockMemory, muxOwner, deviceOpen, queue, wokenBy, cbPc,
                   ownerPc, submitLog, nFailed, samplesAfterStop,
                   submitsAfterStop>>
    /\ UNCHANGED <<lostVars, createVars, appVars, mixVars>>
    /\ UNCHANGED <<signalVars, fnVars, bridgeVars, uMsg>>

\* for (n = 0; n < m_nBlockSamples; n++)
\*   { m_pBlockMemory[nCurrentBlock + n] = nNewSample; m_dGlobalTime += dTimeStep; }
\* The effect of one iteration on the engine; dSample is the value of
\* UserProcess or of m_userFunction, by names the one that was called.
WriteSample(by, dSample) ==
    /\ pc = "fill"
    /\ n < nBlockSamples
    /\ n' = n + 1
    /\ blockData' = [blockData EXCEPT ![m_nBlockCurrent][n] =
                                         NewSample(dSample, nMaxSample)]
    /\ lastSample' = [by |-> by, t |-> m_dGlobalTime,
                      value |-> NewSample(dSample, nMaxSample)]
    /\ m_dGlobalTime' = AdvanceClock(m_dGlobalTime)
    /\ pc' = IF n + 1 < nBlockSamples THEN "fill" ELSE "prepare"
    /\ samplesAfterStop' = IF Stopped THEN samplesAfterStop + 1
                           ELSE samplesAfterStop
    /\ UNCHANGED <<m_bReady, m_nBlockFree, m_nBlockCurrent, m_pBlockMemory,
                   prepared, muxOwner, deviceOpen, queue, wokenBy, cbPc,
                   ownerPc, genLog, submitLog, nFailed, fillsAfterStop,
                   submitsAfterStop>>
    /\ UNCHANGED <<lostVars, createVars, appVars>>
    /\ UNCHANGED <<m_userFunction, nMaxSample, fnVars, bridgeVars, uMsg>>

\* One iteration of the sample loop while m_userFunction is null:
\* nNewSample = (T)(clip(UserProcess(m_dGlobalTime), 1.0) * dMaxSample);
ThreadFill ==
    /\ ~UsesCallback(m_userFunction)
    /\ WriteSample("UserProcess", UserProcess(m_dGlobalTime))
    /\ UNCHANGED mixVars

\* waveOutPrepareHeader(m_hwDevice, &m_pWaveHeaders[m_nBlockCurrent], ...);
\* sets WHDR_PREPARED when the handle is an open device.
ThreadPrepare ==
    /\ pc = "prepare"
    /\ prepared' = IF deviceOpen
                   THEN [prepared EXCEPT ![m_nBlockCurrent] = TRUE]
                   ELSE prepared
    /\ pc' = "write"
    /\ UNCHANGED <<m_bReady, m_nBlockFree, m_nBlockCurrent, m_dGlobalTime,
                   m_pBlockMemory, muxOwner, deviceOpen, queue, n, wokenBy,
                   cbPc, ownerPc>>
    /\ UNCHANGED histVars
    /\ UNCHANGED <<lostVars, createVars, appVars, mixVars>>
    /\ UNCHANGED <<signalVars, fnVars, bridgeVars, uMsg>>

\* The device accepts a waveOutWrite of block b: the handle is open, the
\* device has not been lost, the header is prepared and the block is not
\* queued already.
Accepts(b) == deviceOpen /\ ~deviceLost /\ prepared[b] /\ ~InFlight(b)

\* waveOutWrite(m_hwDevice, &m_pWaveHeaders[m_nBlockCurrent], ...);
\* m_nBlockCurrent++; m_nBlockCurrent %= m_nBlockCount;
\* The return value of waveOutWrite is not looked at.
ThreadWrite ==
    /\ pc = "write"
    /\ \E ok \in BOOLEAN :
         /\ ~ok => (Accepts(m_nBlockCurrent) /\ nFailed < MaxFail)
         /\ IF Accepts(m_nBlockCurrent) /\ ok
            THEN queue' = Append(queue, m_nBlockCurrent) /\ UNCHANGED nFailed
            ELSE /\ UNCHANGED queue
                 /\ nFailed' = IF Accepts(m_nBlockCurrent) THEN nFailed + 1
                               ELSE nFailed
    /\ lostReported' = (lostReported \/ (deviceOpen /\ deviceLost))
    /\ submitLog' = Append(submitLog, m_nBlockCurrent)
    /\ submitsAfterStop' = IF Stopped THEN submitsAfterStop + 1
                           ELSE submitsAfterStop
    /\ m_nBlockCurrent' = NextBlock(m_nBlockCurrent)
    /\ pc' = "loop"
    /\ UNCHANGED <<m_bReady, m_nBlockFree, m_dGlobalTime, m_pBlockMemory,
                   prepared, muxOwner, deviceOpen, n, wokenBy, cbPc, ownerPc,
                   genLog, fillsAfterStop, samplesAfterStop>>
    /\ UNCHANGED <<deviceLost, createVars, appVars>>
    /\ UNCHANGED mixVars
    /\ UNCHANGED <<signalVars, fnVars, bridgeVars, uMsg>>

\* --------------------------------------------------------- callback thread
\* The device finishes the oldest queued block and calls waveOutProc with
\* WOM_DONE:  m_nBlockFree++;
Completion ==
    /\ cbPc = "idle"
    /\ queue # <<>>
    /\ queue' = Tail(queue)
    /\ uMsg' = "WOM_DONE"
    /\ m_nBlockFree' = FreeAfterCallback("WOM_DONE", m_nBlockFree)
    /\ cbPc' = IF IsCompletion("WOM_DONE") THEN "lock" ELSE "idle"
    /\ UNCHANGED <<m_bReady, m_nBlockCurrent, m_dGlobalTime, m_pBlockMemory,
                   prepared, muxOwner, deviceOpen, pc, n, wokenBy, ownerPc>>
    /\ UNCHANGED histVars
    /\ UNCHANGED <<lostVars, createVars, appVars, mixVars>>
    /\ UNCHANGED <<signalVars, fnVars, bridgeVars>>

\* waveOutProc: std::unique_lock<std::mutex> lm(m_muxBlockNotZero);
CallbackLock ==
    /\ cbPc = "lock"
    /\ muxOwner = "none"
    /\ muxOwner' = "callback"
    /\ cbPc' = "notify"
    /\ UNCHANGED engineVars
    /\ UNCHANGED <<deviceOpen, queue, pc, n, wokenBy, ownerPc>>
    /\ UNCHANGED histVars
    /\ UNCHANGED <<lostVars, createVars, appVars, mixVars>>
    /\ UNCHANGED <<signalVars, fnVars, bridgeVars, uMsg>>

\* waveOutProc: m_cvBlockNotZero.notify_one(); and lm is released on return.
CallbackNotify ==
    /\ cbPc = "notify"
    /\ muxOwner = "callback"
    /\ muxOwner' = "none"
    /\ cbPc' = "idle"
    /\ IF pc = "blocked"
       THEN pc' = "woken" /\ wokenBy' = "callback"
       ELSE UNCHANGED <<pc, wokenBy>>
    /\ UNCHANGED engineVars
    /\ UNCHANGED <<deviceOpen, queue, n, ownerPc>>
    /\ UNCHANGED histVars
    /\ UNCHANGED <<lostVars, createVars, appVars, mixVars>>
    /\ UNCHANGED <<signalVars, fnVars, bridgeVars, uMsg>>

\* ----------------------------------------------- the registry and its users
\* Everything the block pool, the device and the owner thread consist of.
poolVars == <<engineVars, muxOwner, deviceOpen, queue, pc, n, wokenBy, cbPc,
              ownerPc, histVars, lostVars, createVars, appVars, signalVars,
              fnVars, uMsg, bridgeVars>>

\* The keys the README documents as notes (Q..P and Z..M).
NoteKeys ==
    {VirtualKeys_Q, VirtualKeys_W, VirtualKeys_E, VirtualKeys_R, VirtualKeys_T,
     VirtualKeys_Y, VirtualKeys_U, VirtualKeys_I, VirtualKeys_O, VirtualKeys_P,
     VirtualKeys_Z, VirtualKeys_X, VirtualKeys_C, VirtualKeys_V, VirtualKeys_B,
     VirtualKeys_N, VirtualKeys_M}

\* A caller enters HandleKeyDown, HandleKeyUp or SetWaveType.
CallBegin(t) ==
    /\ callPc[t] = "idle"
    /\ nCalls < MaxCalls
    /\ \E c \in Calls :
         /\ callOp' = [callOp EXCEPT ![t] = c]
         /\ onSince' = IF c.op = "up" THEN [onSince EXCEPT ![c.key] = FALSE]
                       ELSE onSince
         /\ offSince' = IF c.op = "down" THEN [offSince EXCEPT ![c.key] = FALSE]
                        ELSE offSince
         /\ capSince' = IF c.op = "up" /\ genPc = "lock" THEN capSince \ {c.key}
                        ELSE capSince
         /\ capOff' = IF c.op = "down" /\ genPc = "lock" THEN capOff \ {c.key}
                      ELSE capOff
    /\ callPc' = [callPc EXCEPT ![t] = "lock"]
    /\ nCalls' = nCalls + 1
    /\ UNCHANGED <<registryVars, sampleVars, seqReg, seqWave, lastCall, hist,
                   wavesWritten, capLit>>
    /\ UNCHANGED poolVars

\* std::lock_guard<std::mutex> lock(m_notesMutex); in the three calls.
CallLock(t) ==
    /\ callPc[t] = "lock"
    /\ CanLockNotes
    /\ notesOwner' = t
    /\ callPc' = [callPc EXCEPT ![t] =
                     CASE callOp[t].op = "down" -> "find"
                       [] callOp[t].op = "up" -> "erase"
                       [] OTHER -> "set"]
    /\ seqReg' = CASE callOp[t].op = "down" -> KeyDown(seqReg, callOp[t].key)
                    [] callOp[t].op = "up" -> Erase(seqReg, callOp[t].key)
                    [] OTHER -> seqReg
    /\ seqWave' = IF callOp[t].op = "wave" THEN callOp[t].wave ELSE seqWave
    /\ UNCHANGED <<m_activeNotes, m_currentWaveType, callOp, nCalls, sampleVars,
                   lastCall, hist, onSince, offSince, wavesWritten,
                   captureVars>>
    /\ UNCHANGED poolVars

\* The call of caller t returns: the lock_guard releases m_notesMutex.
\* had: the key was in the registry when the call looked.
Returns(t, had) ==
    LET c == callOp[t] IN
    /\ notesOwner' = Unlocked
    /\ callPc' = [callPc EXCEPT ![t] = "idle"]
    /\ callOp' = [callOp EXCEPT ![t] = NoCall]
    /\ lastCall' = [call |-> c, had |-> had]
    /\ hist' = CASE c.op = "down" -> [hist EXCEPT ![c.key] = "on"]
                  [] c.op = "up" ->
                       [hist EXCEPT ![c.key] =
                           IF hist[c.key] = "on" THEN "on_off" ELSE "off"]
                  [] OTHER -> hist
    /\ onSince' = IF c.op = "down" /\ c.key \in NoteKeys
                  THEN [onSince EXCEPT ![c.key] = ~InProgress(t, "up", c.key)]
                  ELSE onSince
    /\ offSince' = IF c.op = "up"
                   THEN [offSince EXCEPT ![c.key] = ~InProgress(t, "down", c.key)]
                   ELSE offSince
    /\ wavesWritten' = IF c.op = "wave" THEN wavesWritten \cup {c.wave}
                       ELSE wavesWritten
    /\ UNCHANGED <<nCalls, sampleVars, seqReg, seqWave, captureVars>>
    /\ UNCHANGED poolVars

\* HandleKeyDown: if (m_activeNotes.find(wParam) == m_activeNotes.end());
\* a key that is in the registry makes the call return.
CallFind(t) ==
    /\ callPc[t] = "find"
    /\ IF ShouldMap(m_activeNotes, callOp[t].key)
       THEN /\ callPc' = [callPc EXCEPT ![t] = "map"]
            /\ UNCHANGED <<registryVars, callOp, nCalls, sampleVars,
                           noteHistVars, captureVars>>
            /\ UNCHANGED poolVars
       ELSE /\ Returns(t, TRUE)
            /\ UNCHANGED <<m_activeNotes, m_currentWaveType>>

\* HandleKeyDown: MapNoteFrequency(wParam); stores the frequency of a known
\* key and returns early for an unknown one.
CallMap(t) ==
    /\ callPc[t] = "map"
    /\ m_activeNotes' =
          IF IsMapped(callOp[t].key)
          THEN Insert(m_activeNotes, callOp[t].key,
                      MapNoteFrequency(callOp[t].key))
          ELSE m_activeNotes
    /\ Returns(t, FALSE)
    /\ UNCHANGED m_currentWaveType

\* HandleKeyUp: m_activeNotes.erase(wParam);
CallErase(t) ==
    /\ callPc[t] = "erase"
    /\ m_activeNotes' = Erase(m_activeNotes, callOp[t].key)
    /\ Returns(t, callOp[t].key \in DOMAIN m_activeNotes)
    /\ UNCHANGED m_currentWaveType

\* SetWaveType: m_currentWaveType = type;
CallSet(t) ==
    /\ callPc[t] = "set"
    /\ m_currentWaveType' = callOp[t].wave
    /\ m_activeNotes' = NotesAfterSetWave(m_activeNotes)
    /\ Returns(t, FALSE)

\* MainThread calls m_userFunction for sample n: StaticNoiseCallback reads
\* m_currentWaveType (without m_notesMutex) and calls MakeSineNoise or
\* MakeSquareNoise.
SampleBegin ==
    /\ pc = "fill"
    /\ n < nBlockSamples
    /\ UsesCallback(m_userFunction)
    /\ genPc = "idle"
    /\ genPc' = "lock"
    /\ waveRead' = m_currentWaveType
    /\ capLit' = {k \in KeysUsed : onSince[k]}
    /\ capSince' = {k \in KeysUsed : onSince[k]}
    /\ capOff' = {k \in KeysUsed : offSince[k]}
    /\ UNCHANGED <<registryVars, callVars, toVisit, summed, regAtLock,
                   dOutput, usedWaves, noteHistVars>>
    /\ UNCHANGED poolVars

\* MakeSineNoise / MakeSquareNoise: std::lock_guard lock(m_notesMutex);
\* dOutput = 0.0; and the for loop starts.
SampleLock ==
    /\ genPc = "lock"
    /\ CanLockNotes
    /\ notesOwner' = GenThread
    /\ genPc' = "sum"
    /\ toVisit' = DOMAIN m_activeNotes
    /\ summed' = {}
    /\ dOutput' = InitialOutput
    /\ usedWaves' = {}
    /\ regAtLock' = m_activeNotes
    /\ UNCHANGED <<m_activeNotes, m_currentWaveType, callVars, waveRead,
                   noteHistVars, captureVars>>
    /\ UNCHANGED poolVars

\* for (const auto& key : m_activeNotes) dOutput += ...SoundMaker(freq, dTime);
\* one entry of the map, in the map's (unspecified) order.
SampleVisit ==
    /\ genPc = "sum"
    /\ \E k \in toVisit :
         /\ toVisit' = toVisit \ {k}
         /\ IF k \in DOMAIN m_activeNotes
            THEN LET wave == NoteWave(waveRead, m_currentWaveType) IN
                 /\ summed' = summed \cup {k}
                 /\ dOutput' = dOutput + Oscillator(wave, m_activeNotes[k],
                                                    m_dGlobalTime)
                 /\ usedWaves' = usedWaves \cup {wave}
            ELSE UNCHANGED <<summed, dOutput, usedWaves>>
    /\ UNCHANGED <<registryVars, callVars, genPc, waveRead, regAtLock,
                   noteHistVars, captureVars>>
    /\ UNCHANGED poolVars

\* return dOutput * 0.5; (the lock_guard releases m_notesMutex) and
\* MainThread writes the sample and advances the clock.
SampleEnd ==
    /\ genPc = "sum"
    /\ toVisit = {}
    /\ notesOwner' = Unlocked
    /\ genPc' = "idle"
    /\ WriteSample("m_userFunction", Attenuate(dOutput))
    /\ UNCHANGED <<m_activeNotes, m_currentWaveType, callVars, waveRead,
                   toVisit, summed, regAtLock, dOutput, usedWaves,
                   noteHistVars, captureVars>>

\* The engine after Create, with MainThread about to generate the first
\* sample of block 0, and the initial AudioManager.
MixInit ==
    /\ m_bReady = TRUE
    /\ m_nBlockFree = nBlocks - 1
    /\ m_nBlockCurrent = 0
    /\ m_dGlobalTime = 0
    /\ m_pBlockMemory = "allocated"
    /\ prepared = [b \in Blocks |-> FALSE]
    /\ muxOwner = "none"
    /\ deviceOpen = TRUE
    /\ queue = <<>>
    /\ pc = "fill"
    /\ n = 0
    /\ wokenBy = "none"
    /\ cbPc = "idle"
    /\ ownerPc = "live"
    /\ genLog = <<0>>
    /\ submitLog = <<>>
    /\ nFailed = 0
    /\ fillsAfterStop = 0
    /\ samplesAfterStop = 0
    /\ submitsAfterStop = 0
    /\ deviceLost = FALSE
    /\ lostReported = FALSE
    /\ deviceFound = "yes"
    /\ createResult = "true"
    /\ m_sound = "engine"
    /\ initResult = "true"
    /\ appResult = "true"
    /\ window = "up"
    /\ d3d = "up"
    /\ gui = "up"
    /\ MixVarsInit
    /\ m_userFunction = "callback"
    /\ nMaxSample \in MaxSampleOutcomes
    /\ blockData = [b \in Blocks |-> [i \in Positions |-> 0]]
    /\ lastSample = [by |-> "none", t |-> 0, value |-> 0]
    /\ fnArgs = NoArgs
    /\ fnResult = <<>>
    /\ uMsg = "WOM_OPEN"
    /\ BridgeVarsInit

HandleCalls ==
    \E t \in Callers :
        \/ CallBegin(t) \/ CallLock(t) \/ CallFind(t) \/ CallMap(t)
        \/ CallErase(t) \/ CallSet(t)

StaticNoiseCallback == SampleBegin \/ SampleLock \/ SampleVisit \/ SampleEnd

MixNext == HandleCalls \/ StaticNoiseCallback

\* The generation of one block while the callers use the note control
\* surface.
MixSpec == MixInit /\ [][MixNext]_vars

\* ------------------------------------------- functions evaluated on their own
\* Every variable of the program.
programVars == <<engineVars, muxOwner, deviceOpen, queue, pc, n, wokenBy, cbPc,
                 ownerPc, histVars, lostVars, createVars, appVars, signalVars,
                 mixVars, uMsg>>

\* The program before its start, and the arguments of one evaluation.
FnInit ==
    /\ ProgramInit
    /\ fnArgs \in FnInputs
    /\ fnResult = <<>>
    /\ BridgeVarsInit

\* One sample of MainThread's for loop.
FnSample ==
    /\ fnArgs.fn = "sample"
    /\ fnResult = <<>>
    /\ fnResult' = <<GenerateSample(fnArgs.func, fnArgs.instance, fnArgs.wave,
                                    PressAll(EmptyNotes, fnArgs.keys),
                                    fnArgs.dTime, fnArgs.max)>>
    /\ UNCHANGED <<fnArgs, programVars, bridgeVars>>

\* HandleKeyDown for each of the keys.
FnKeyDown ==
    /\ fnArgs.fn = "keydown"
    /\ fnResult = <<>>
    /\ fnResult' = <<PressAll(EmptyNotes, fnArgs.keys)>>
    /\ UNCHANGED <<fnArgs, programVars, bridgeVars>>

\* SquareSoundMaker for one frequency and one clock value.
FnSquare ==
    /\ fnArgs.fn = "square"
    /\ fnResult = <<>>
    /\ fnResult' = <<SquareSoundMaker(fnArgs.x, fnArgs.dTime)>>
    /\ UNCHANGED <<fnArgs, programVars, bridgeVars>>

\* MainThread's clip, scale and conversion of one callback value.
FnQuantize ==
    /\ fnArgs.fn = "quantize"
    /\ fnResult = <<>>
    /\ fnResult' = <<NewSample(fnArgs.x, fnArgs.max)>>
    /\ UNCHANGED <<fnArgs, programVars, bridgeVars>>

\* Create's choice of the device id for the requested name.
FnOpen ==
    /\ fnArgs.fn = "open"
    /\ fnResult = <<>>
    /\ fnResult' = <<DeviceID(GetDevices(fnArgs.caps), fnArgs.x)>>
    /\ UNCHANGED <<fnArgs, programVars, bridgeVars>>

FnNext == FnSample \/ FnKeyDown \/ FnSquare \/ FnQuantize \/ FnOpen

\* The sample pipeline and the key table, each evaluated once on arguments
\* drawn from FnInputs.
FnSpec == FnInit /\ [][FnNext]_vars

\* ------------------------------------------- AudioManager objects, s_instance
\* What s_instance-> refers to when the pointer is p.
Target(p) ==
    IF p = Null THEN "null"
    ELSE IF life[p] \in {"alive", "running"} THEN "live"
    ELSE "destroyed"

\* AudioManager::AudioManager() { s_instance = this; }
Construct(i) ==
    /\ life[i] = "none"
    /\ life' = [life EXCEPT ![i] = "alive"]
    /\ s_instance' = i
    /\ UNCHANGED <<bridgePc, bridgeRead, derefed>>
    /\ UNCHANGED <<programVars, fnVars>>

\* AudioManager::Initialize: m_sound = make_unique<NoiseMaker<int>>(...);
\* m_sound->SetUserFunction(StaticNoiseCallback); the engine thread of
\* this manager calls StaticNoiseCallback from now on.
ManagerInitialize(i) ==
    /\ life[i] = "alive"
    /\ life' = [life EXCEPT ![i] = "running"]
    /\ UNCHANGED <<s_instance, bridgePc, bridgeRead, derefed>>
    /\ UNCHANGED <<programVars, fnVars>>

\* AudioManager::Shutdown: m_sound.reset(); ~NoiseMaker joins the engine
\* thread, which leaves its loop between two samples.
ManagerShutdown(i) ==
    /\ life[i] = "running"
    /\ bridgePc[i] = "idle"
    /\ life' = [life EXCEPT ![i] = "alive"]
    /\ UNCHANGED <<s_instance, bridgePc, bridgeRead, derefed>>
    /\ UNCHANGED <<programVars, fnVars>>

\* ~AudioManager: if (s_instance == this) s_instance = nullptr; then the
\* members go in reverse order of declaration: m_notesMutex and
\* m_activeNotes before m_sound, whose engine thread is still running.
Destruct(i) ==
    /\ life[i] \in {"alive", "running"}
    /\ s_instance' = IF s_instance = i THEN Null ELSE s_instance
    /\ life' = [life EXCEPT ![i] = IF life[i] = "running" THEN "dying"
                                   ELSE "destroyed"]
    /\ UNCHANGED <<bridgePc, bridgeRead, derefed>>
    /\ UNCHANGED <<programVars, fnVars>>

\* ~AudioManager: ~unique_ptr<NoiseMaker> joins the engine thread.
DestructJoin(i) ==
    /\ life[i] = "dying"
    /\ bridgePc[i] = "idle"
    /\ life' = [life EXCEPT ![i] = "destroyed"]
    /\ UNCHANGED <<s_instance, bridgePc, bridgeRead, derefed>>
    /\ UNCHANGED <<programVars, fnVars>>

\* StaticNoiseCallback on the engine thread of manager i: if (s_instance);
\* with nullptr it returns 0.0.
BridgeCheck(i) ==
    /\ life[i] \in {"running", "dying"}
    /\ bridgePc[i] = "idle"
    /\ bridgeRead' = [bridgeRead EXCEPT ![i] = s_instance]
    /\ bridgePc' = [bridgePc EXCEPT ![i] = IF s_instance = Null THEN "idle"
                                           ELSE "deref"]
    /\ UNCHANGED <<life, s_instance, derefed>>
    /\ UNCHANGED <<programVars, fnVars>>

\* StaticNoiseCallback: s_instance->m_currentWaveType and
\* s_instance->MakeSineNoise / MakeSquareNoise.  s_instance is a plain
\* pointer that constructors and destructors write on another thread: the
\* expression uses the value the test read or the value the pointer has now.
BridgeDeref(i) ==
    /\ bridgePc[i] = "deref"
    /\ \E p \in {bridgeRead[i], s_instance} : derefed' = Target(p)
    /\ bridgePc' = [bridgePc EXCEPT ![i] = "idle"]
    /\ bridgeRead' = [bridgeRead EXCEPT ![i] = Null]
    /\ UNCHANGED <<life, s_instance>>
    /\ UNCHANGED <<programVars, fnVars>>

BridgeInit ==
    /\ ProgramInit
    /\ fnArgs = NoArgs
    /\ fnResult = <<>>
    /\ BridgeVarsInit

ManagerLifetime ==
    \E i \in Managers :
        \/ Construct(i) \/ ManagerInitialize(i) \/ ManagerShutdown(i)
        \/ Destruct(i) \/ DestructJoin(i)

BridgeCallback == \E i \in Managers : BridgeCheck(i) \/ BridgeDeref(i)

BridgeNext == ManagerLifetime \/ BridgeCallback

\* Any sequence of constructions, initialisations, shutdowns and
\* destructions of AudioManager objects, with their engine threads calling
\* StaticNoiseCallback.
BridgeSpec == BridgeInit /\ [][BridgeNext]_vars

\* ------------------------------------------------------------ specification
Create == CreateOpen \/ CreateSpawn \/ CreateLock \/ CreateNotify

Initialize ==
    \/ AppCreateWindow \/ AppInitD3D \/ AppInitGui \/ AudioInitialize
    \/ AppAudioFailed \/ AudioInitReturn

Destroy == Stop \/ Join \/ DeleteBlocks

MainThread ==
    \/ ThreadStart \/ ThreadLoop \/ ThreadCheck \/ ThreadLock \/ ThreadWait \/ ThreadWake
    \/ ThreadDecrement \/ ThreadUnprepare \/ ThreadFill \/ ThreadPrepare
    \/ ThreadWrite
    \* the synthesis callback while no key is held: the for loop over
    \* m_activeNotes has no iteration
    \/ SampleBegin \/ SampleLock \/ SampleEnd

waveOutProc == Completion \/ CallbackLock \/ CallbackNotify

Next ==
    \/ Initialize \/ Create \/ Destroy \/ MainThread \/ SpuriousWakeup
    \/ waveOutProc \/ DeviceLost

Spec == Init /\ [][Next]_vars

\* The scheduler runs every thread that can take a step, and the device
\* plays every block queued at it.  Nothing obliges the owner to shut the
\* engine down, and nothing obliges a wait to end without a notify.
FairSpec ==
    /\ Spec
    /\ WF_vars(Initialize)
    /\ WF_vars(Create)
    /\ WF_vars(Join \/ DeleteBlocks)
    /\ WF_vars(MainThread)
    /\ WF_vars(waveOutProc)

TypeOK ==
    /\ m_bReady \in BOOLEAN
    /\ m_nBlockFree \in (-MaxBlocks) .. nBlocks
    /\ m_nBlockCurrent \in Blocks
    /\ m_dGlobalTime \in 0 .. (MaxBlocks * nBlockSamples)
    /\ m_pBlockMemory \in {"null", "allocated", "deleted"}
    /\ prepared \in [Blocks -> BOOLEAN]
    /\ muxOwner \in {"none", "main", "callback", "create"}
    /\ deviceOpen \in BOOLEAN
    /\ pc \in {"notStarted", "start", "loop", "check", "lock", "wait", "blocked", "woken",
               "decrement", "unprepare", "fill", "prepare", "write", "done"}
    /\ n \in 0 .. nBlockSamples
    /\ cbPc \in {"idle", "lock", "notify"}
    /\ uMsg \in {"none", "WOM_OPEN", "WOM_DONE"}
    /\ ownerPc \in {"window", "d3d", "gui", "audio", "cleanup", "exit", "create",
                    "spawn", "lock", "notify", "initReturn", "live", "join",
                    "dtor", "destroyed"}
    /\ deviceLost \in BOOLEAN
    /\ lostReported \in BOOLEAN
    /\ deviceFound \in {"unknown", "yes", "no"}
    /\ createResult \in {"pending", "true", "false"}
    /\ m_sound \in {"null", "engine"}
    /\ initResult \in {"pending", "true", "false"}
    /\ appResult \in {"pending", "true", "false"}
    /\ {window, d3d, gui} \subseteq {"none", "up", "down"}
    /\ DOMAIN m_activeNotes \subseteq KeysUsed
    /\ m_currentWaveType \in WaveType
    /\ notesOwner \in Callers \cup {Unlocked, GenThread}
    /\ callPc \in [Callers -> {"idle", "lock", "find", "map", "erase", "set"}]
    /\ callOp \in [Callers -> Calls \cup {NoCall}]
    /\ nCalls \in 0 .. MaxCalls
    /\ genPc \in {"idle", "lock", "sum"}
    /\ waveRead \in WaveType
    /\ toVisit \subseteq KeysUsed
    /\ summed \subseteq KeysUsed

\* ------------------------------------------------------------------ claims
\* The step is a waveOutUnprepareHeader call on block m_nBlockCurrent.
Unprepares == pc = "unprepare" /\ pc' = "fill" /\ prepared[m_nBlockCurrent]

\* The step writes one sample into block m_nBlockCurrent.
WritesSample == pc = "fill" /\ m_dGlobalTime' # m_dGlobalTime

\* The step is a waveOutWrite call on block m_nBlockCurrent.
Submits == pc = "write" /\ pc' = "loop"

\* MainThread has taken a block (decremented the count) and not yet
\* passed it to waveOutWrite.
Holding == pc \in {"unprepare", "fill", "prepare", "write"}

\* No notify_one is still to come from code that is already running.
NoNotifyPending == cbPc = "idle" /\ ownerPc \notin {"spawn", "lock", "notify"}

\* The run so far is one of Create, MainThread and waveOutProc alone: the
\* device was opened and has not been lost, no waveOutWrite has failed and
\* the last wait was not ended by a spurious wake-up.
PlainRun == deviceOpen /\ ~deviceLost /\ nFailed = 0 /\ wokenBy # "spurious"

\* C1: in every interleaving of Create, MainThread and waveOutProc,
\* MainThread never unprepares, and never writes a sample into, block
\* m_nBlockCurrent while the device still has that block queued.
C1_NoTouchInFlight ==
    [][(PlainRun /\ (Unprepares \/ WritesSample))
          => ~InFlight(m_nBlockCurrent)]_vars

\* C2: the free count stays within 0 .. m_nBlockCount; the unsigned
\* decrement never takes it below 0 (to 2^32 - 1).
C2_FreeCountInRange == PlainRun => m_nBlockFree \in 0 .. nBlocks

\* C3: a block is never passed to waveOutWrite while its previous
\* submission has not completed.
C3_SubmitCompleteAlternate ==
    [][(PlainRun /\ Submits) => ~InFlight(m_nBlockCurrent)]_vars

\* C4: the k-th block filled and the k-th block submitted (k = 0, 1, ...) is
\* block k mod m_nBlockCount, and blocks are submitted in the order they
\* were filled.
C4_RoundRobin ==
    /\ \A k \in 1 .. Len(genLog) : genLog[k] = (k - 1) % nBlocks
    /\ Len(submitLog) <= Len(genLog)
    /\ \A k \in 1 .. Len(submitLog) : submitLog[k] = genLog[k]

\* C4 witness: the rotation has gone once round the ring and on.
C4_Witness == Len(submitLog) > nBlocks /\ submitLog[nBlocks + 1] = 0

\* C5: between Create and Stop, free count + blocks queued at the device +
\* the block MainThread holds = m_nBlockCount.
C5_Conservation ==
    (PlainRun /\ ~Stopped) =>
        m_nBlockFree + Len(queue) + (IF Holding THEN 1 ELSE 0) = nBlocks

\* C6: MainThread is never left blocked in the wait while a block is free,
\* the engine runs, and no completion and no notify is still to come.
C6_NoLostWakeup ==
    ~(/\ PlainRun
      /\ pc = "blocked"
      /\ m_nBlockFree \in 1 .. nBlocks
      /\ queue = <<>>
      /\ NoNotifyPending
      /\ ~Stopped)

\* C7: when Stop has cleared m_bReady and waits in join while MainThread is
\* blocked in the wait, MainThread eventually leaves its loop, so that
\* join returns.
C7_StopTerminates ==
    (PlainRun /\ ownerPc = "join" /\ pc = "blocked") ~> (pc = "done")

\* C8: when the destructor has released the block memory, no block is
\* queued at the device.
C8_NoneInFlightAfterDestroy == ownerPc = "destroyed" => queue = <<>>

\* C9: after Stop has cleared m_bReady, MainThread starts to fill at most
\* one more block, writes at most m_nBlockSamples more samples and calls
\* waveOutWrite at most once more.
C9_BoundedAfterStop ==
    /\ fillsAfterStop <= 1
    /\ submitsAfterStop <= 1
    /\ samplesAfterStop <= nBlockSamples

\* C9 witness: Stop came while MainThread had not started its next block;
\* MainThread filled and submitted that one block and left the loop.
C9_Witness ==
    /\ pc = "done"
    /\ fillsAfterStop = 1
    /\ submitsAfterStop = 1
    /\ samplesAfterStop = nBlockSamples

\* C10: failed waveOutWrite calls do not halt generation: the engine never
\* runs with MainThread blocked in the wait, every slot of the pool gone
\* (free count 0, nothing queued at the device) and no notify to come.
C10_FailedSubmitDoesNotHalt ==
    ~(/\ nFailed > 0
      /\ deviceOpen
      /\ pc = "blocked"
      /\ m_nBlockFree = 0
      /\ queue = <<>>
      /\ NoNotifyPending
      /\ ~Stopped)

\* The step starts the filling of another block.
StartsBlock == pc = "unprepare" /\ pc' = "fill"

\* C11: once a waveOutWrite call has reported the device as permanently
\* lost, MainThread starts no further block.
C11_DeviceLostStopsGeneration == [][lostReported => ~StartsBlock]_vars

\* C12: when waveOutOpen fails inside Create, AudioManager::Initialize does
\* not return true, no engine is left in m_sound and no generation thread
\* runs.
C12_OpenFailureSurfaced ==
    (deviceFound = "yes" /\ createResult = "false") =>
        /\ initResult # "true"
        /\ m_sound = "null"
        /\ pc = "notStarted"

\* C13: when the requested device is not in the list of GetDevices, Create
\* does not return true, allocates no pool, starts no generation thread and
\* passes no block to waveOutWrite.
C13_MissingDeviceFails ==
    deviceFound = "no" =>
        /\ createResult # "true"
        /\ m_pBlockMemory = "null"
        /\ pc = "notStarted"
        /\ submitLog = <<>>

\* C14: when AudioManager::Initialize has found no device and App::Initialize
\* has returned false, no engine and no generation thread exist and the
\* GUI, D3D and the window have been shut down.
C14_NoDeviceCleanup ==
    (initResult = "false" /\ appResult = "false") =>
        /\ m_sound = "null"
        /\ m_pBlockMemory = "null"
        /\ pc = "notStarted"
        /\ gui = "down"
        /\ d3d = "down"
        /\ window = "down"

\* C14 witness: Initialize found no device after the window, D3D and the
\* GUI had been brought up, and App::Initialize has returned false.
C14_Witness ==
    /\ ownerPc = "exit"
    /\ initResult = "false"
    /\ appResult = "false"
    /\ gui = "down"

\* C15: once HandleKeyDown(k) and then HandleKeyUp(k) have returned, with no
\* other call on k returning after the HandleKeyUp, k is not in the registry,
\* whatever else the registry holds and whatever other calls are under way.
C15_OnThenOffRemoves ==
    \A k \in KeysUsed : hist[k] = "on_off" => k \notin DOMAIN m_activeNotes

\* C15 witness: a note key was pressed and released while another key was
\* added and is still held.
C15_Witness ==
    \E k \in KeysUsed \cap NoteKeys :
        /\ hist[k] = "on_off"
        /\ k \notin DOMAIN m_activeNotes
        /\ m_activeNotes # EmptyNotes

\* The step is the return of a HandleKeyUp whose key is not in the registry.
AbsentKeyUp ==
    \E t \in Callers :
        /\ callPc[t] = "erase"
        /\ callPc'[t] = "idle"
        /\ callOp[t].key \notin DOMAIN m_activeNotes

\* C16: HandleKeyUp on a key that is not in the registry returns and leaves
\* the registry, the waveform selection and the engine state unchanged.
C16_AbsentKeyUpIsNoOp ==
    [][AbsentKeyUp => UNCHANGED <<m_activeNotes, m_currentWaveType, poolVars>>]_vars

\* C16 witness: the last call that returned is a HandleKeyUp that did not
\* find its key, and the registry holds another key.
C16_Witness ==
    /\ lastCall.call.op = "up"
    /\ ~lastCall.had
    /\ m_activeNotes # EmptyNotes

\* The README's key mappings (Q..P: C5..E6, Z..M: C4..B4), in milli-hertz.
KeyMappings(k) ==
    CASE k = VirtualKeys_Q -> NoteFrequencies_C5
      [] k = VirtualKeys_W -> NoteFrequencies_D5
      [] k = VirtualKeys_E -> NoteFrequencies_E5
      [] k = VirtualKeys_R -> NoteFrequencies_F5
      [] k = VirtualKeys_T -> NoteFrequencies_G5
      [] k = VirtualKeys_Y -> NoteFrequencies_A5
      [] k = VirtualKeys_U -> NoteFrequencies_B5
      [] k = VirtualKeys_I -> NoteFrequencies_C6
      [] k = VirtualKeys_O -> NoteFrequencies_D6
      [] k = VirtualKeys_P -> NoteFrequencies_E6
      [] k = VirtualKeys_Z -> NoteFrequencies_C4
      [] k = VirtualKeys_X -> NoteFrequencies_D4
      [] k = VirtualKeys_C -> NoteFrequencies_E4
      [] k = VirtualKeys_V -> NoteFrequencies_F4
      [] k = VirtualKeys_B -> NoteFrequencies_G4
      [] k = VirtualKeys_N -> NoteFrequencies_A4
      [] k = VirtualKeys_M -> NoteFrequencies_B4
      [] OTHER -> 0

\* The step is the return of caller t's HandleKeyDown with a note key.
NoteOnReturns(t) ==
    /\ callPc[t] \in {"find", "map"}
    /\ callPc'[t] = "idle"
    /\ callOp[t].key \in NoteKeys

\* C17: when HandleKeyDown with a mapped key returns, the registry holds the
\* key with the frequency of that key, whether the key was absent or already
\* present; and every entry of the registry, one per key, always holds the
\* frequency of its key.
C17_NoteOnStoresFrequency ==
    [][/\ \A t \in Callers :
            NoteOnReturns(t) =>
                /\ callOp[t].key \in DOMAIN m_activeNotes'
                /\ m_activeNotes'[callOp[t].key] = KeyMappings(callOp[t].key)
       /\ \A k \in DOMAIN m_activeNotes' :
            /\ k \in NoteKeys
            /\ m_activeNotes'[k] = KeyMappings(k)]_vars

\* C17 witness: the last call that returned is a HandleKeyDown that found
\* its key in the registry, and two keys are held.
C17_Witness ==
    /\ lastCall.call.op = "down"
    /\ lastCall.had
    /\ lastCall.call.key \in DOMAIN m_activeNotes
    /\ Cardinality(DOMAIN m_activeNotes) = 2

\* C18: while a sample is summed the registry is the one the sample found
\* when it took m_notesMutex, and the notes summed and still to sum are
\* exactly its keys; and whenever no call is inside its body the registry
\* and the waveform are those of the calls applied one after the other in
\* the order in which they took m_notesMutex.
C18_ConsistentSumSequentialRegistry ==
    /\ genPc = "sum" =>
         /\ m_activeNotes = regAtLock
         /\ summed \cup toVisit = DOMAIN regAtLock
         /\ summed \cap toVisit = {}
    /\ (\A t \in Callers : callPc[t] \in {"idle", "lock"}) =>
         /\ m_activeNotes = seqReg
         /\ m_currentWaveType = seqWave

\* C18 witness: a sample is in the middle of its sum while two callers are
\* inside calls, waiting for m_notesMutex.
C18_Witness ==
    /\ genPc = "sum"
    /\ summed # {}
    /\ \E t, u \in Callers : t # u /\ callPc[t] = "lock" /\ callPc[u] = "lock"

\* C19: the generation thread does not hold m_notesMutex while it iterates
\* the notes of a sample, so a caller can take the mutex during the sum.
C19_NoLockWhileSumming == genPc = "sum" => CanLockNotes

\* The sum of the current sample is complete.
SumComplete == genPc = "sum" /\ toVisit = {}

\* C20: a sample that began after HandleKeyDown(k) returned and before any
\* later HandleKeyUp(k) began sums k; a sample generated after
\* HandleKeyUp(k) returned, with no later HandleKeyDown(k), does not.
C20_SampleSeesReturnedCalls ==
    SumComplete => capLit \subseteq summed /\ capOff \cap summed = {}

\* C20 amended: a sample sums k when HandleKeyDown(k) returned before the
\* sample began and no HandleKeyUp(k) began before the sample took
\* m_notesMutex; a sample generated after HandleKeyUp(k) returned, with no
\* later HandleKeyDown(k), does not sum k.
C20_SampleSeesCallsBeforeLock ==
    SumComplete => capSince \subseteq summed /\ capOff \cap summed = {}

\* C20 witness: a completed sum with one key pressed before it and another
\* one pressed and released before it.
C20_Witness ==
    /\ SumComplete
    /\ capSince # {}
    /\ capOff \cap NoteKeys # {}

\* C21: the waveform of a sample is read once, when the sample begins, and
\* does not change until the next sample begins; it is the initial Sine or
\* a value a SetWaveType call has written; and every note summed into the
\* sample is rendered with it, whatever SetWaveType calls run meanwhile.
C21_OneWaveformPerSample ==
    [][/\ genPc # "idle" => waveRead' = waveRead
       /\ waveRead' \in {"Sine"} \cup wavesWritten'
       /\ genPc' = "sum" => usedWaves' \subseteq {waveRead'}]_vars

\* C21 witness: SetWaveType changed the selection after the sample had
\* read it, and a note of the sample has been rendered.
C21_Witness ==
    /\ genPc = "sum"
    /\ usedWaves = {waveRead}
    /\ waveRead # m_currentWaveType

\* C22: no thread holds m_muxBlockNotZero and m_notesMutex together: the
\* generation thread is inside the synthesis callback only without the pool
\* mutex, the thread in Create holds no registry mutex, and the completion
\* callback, which holds the pool mutex, is never the registry's holder.
C22_NoNestedLocks ==
    /\ ~(muxOwner = "main" /\ notesOwner = GenThread)
    /\ genPc # "idle" => muxOwner # "main"
    /\ muxOwner = "create" => notesOwner \notin Callers
    /\ notesOwner \in Callers \cup {Unlocked, GenThread}

\* C22 witness: the generation thread holds the registry mutex inside the
\* synthesis callback while the completion callback holds the pool mutex.
C22_Witness ==
    /\ notesOwner = GenThread
    /\ muxOwner = "callback"

\* The samples MainThread has written: those of the blocks it has passed to
\* waveOutWrite and those of the block it is filling.
SamplesWritten ==
    Len(submitLog) * nBlockSamples
        + (CASE pc = "fill" -> n
             [] pc \in {"prepare", "write"} -> nBlockSamples
             [] OTHER -> 0)

\* C25: from the start of MainThread on the clock is the number of samples
\* written, so M * nBlockSamples after M blocks; and every sample is
\* evaluated at the clock value that follows the one of the sample before.
C25_ClockCountsSamples ==
    [][/\ pc' \notin {"notStarted", "start"} => m_dGlobalTime' = SamplesWritten'
       /\ WritesSample =>
            /\ lastSample'.t = m_dGlobalTime
            /\ m_dGlobalTime' = m_dGlobalTime + 1
            /\ lastSample.by # "none" => lastSample'.t = lastSample.t + 1]_vars

\* C25 witness: two complete blocks have been generated and passed on, and
\* the clock stands at twice the block length.
C25_Witness ==
    /\ pc = "loop"
    /\ Len(submitLog) = 2
    /\ m_dGlobalTime = 2 * nBlockSamples
    /\ lastSample.t = 2 * nBlockSamples - 1

\* The step is one of the thread in Create and the destructor, of the
\* completion callback or of a caller of the AudioManager.
OtherThreadSteps == ownerPc' # ownerPc \/ cbPc' # cbPc \/ callPc' # callPc

\* C26: the clock never decreases, and no step of Create's caller, of the
\* completion callback or of HandleKeyDown, HandleKeyUp and SetWaveType
\* changes it.
C26_ClockMonotonicAndOwned ==
    [][/\ m_dGlobalTime' >= m_dGlobalTime
       /\ OtherThreadSteps => m_dGlobalTime' = m_dGlobalTime]_vars

\* C26 witness: the clock has advanced by a block, Stop has been called and
\* the completion callback is running.
C26_Witness ==
    /\ m_dGlobalTime >= nBlockSamples
    /\ ownerPc = "join"
    /\ cbPc = "notify"

\* The operation of the call in which a caller takes the step.
StepOp(t) == IF callPc[t] = "idle" THEN callOp'[t].op ELSE callOp[t].op

\* C24: a sample whose sum found the registry empty is written as 0,
\* whichever waveform the sample read.
C24_SilenceWhenEmpty ==
    [][(WritesSample /\ genPc = "sum" /\ regAtLock = EmptyNotes) =>
            /\ blockData'[m_nBlockCurrent][n] = 0
            /\ lastSample'.value = 0]_vars

\* C24 witness: a key was pressed and released, the square wave is
\* selected, and the last sample found the registry empty and is 0.
C24_Witness ==
    /\ lastSample.by = "m_userFunction"
    /\ lastSample.value = 0
    /\ regAtLock = EmptyNotes
    /\ waveRead = "Square"
    /\ \E k \in KeysUsed : hist[k] = "on_off"

\* C27: a step of HandleKeyDown, HandleKeyUp or SetWaveType leaves
\* m_nBlockFree, m_nBlockCurrent, the block contents and the clock
\* unchanged; a step of SetWaveType leaves the registry unchanged and a step
\* of HandleKeyDown or HandleKeyUp the waveform selection.
C27_ControlSurfaceFrame ==
    [][\A t \in Callers :
          callPc'[t] # callPc[t] =>
              /\ UNCHANGED <<m_nBlockFree, m_nBlockCurrent, blockData,
                             m_dGlobalTime>>
              /\ StepOp(t) = "wave" => m_activeNotes' = m_activeNotes
              /\ StepOp(t) \in {"down", "up"} =>
                     m_currentWaveType' = m_currentWaveType]_vars

\* C27 witness: SetWaveType has returned while a key is held and after the
\* generation thread has written a sample.
C27_Witness ==
    /\ lastCall.call.op = "wave"
    /\ m_activeNotes # EmptyNotes
    /\ lastSample.by # "none"
    /\ m_dGlobalTime > 0

\* clip(x, 1.0) as the nearest amplitude within -1.0 .. 1.0.
Limit(x) == IF x > FullScale THEN FullScale ELSE IF x < -FullScale THEN -FullScale ELSE x

\* x * (2^31 - 1), truncated towards zero, for an amplitude x in thousandths
\* (2^31 - 1 = 2147483 * 1000 + 647).
ScaleToMax(x) ==
    IF x >= 0 THEN x * 2147483 + (x * 647) \div 1000
    ELSE -((-x) * 2147483 + ((-x) * 647) \div 1000)

\* The frequencies of the held keys, by the README's key mappings.
HeldFrequencies(keys) == {KeyMappings(k) : k \in keys}

\* 0.5 times the sum of the oscillators of the frequencies in fs.
RECURSIVE HalfSum(_, _, _)
HalfSum(wave, fs, t) ==
    IF fs = {} THEN 0
    ELSE LET f == CHOOSE x \in fs : TRUE
         IN  Oscillator(wave, f, t) \div 2 + HalfSum(wave, fs \ {f}, t)

\* C23: with a registered callback and instance, a fixed waveform and 0, 1
\* or 3 held notes, the sample for clock value t is
\* clip(0.5 * (sum of the oscillators at t), 1.0) times the largest value
\* of the sample type, 2^31 - 1, truncated.
C23_SampleFormula ==
    (/\ fnArgs.fn = "sample"
     /\ fnResult # <<>>
     /\ fnArgs.func = "callback"
     /\ fnArgs.instance = "this"
     /\ Cardinality(fnArgs.keys) \in {0, 1, 3}) =>
        fnResult[1] = ScaleToMax(Limit(HalfSum(fnArgs.wave,
                                               HeldFrequencies(fnArgs.keys),
                                               fnArgs.dTime)))

\* C28: HandleKeyDown on an empty registry stores, for each of the 17
\* documented keys, the frequency of the README's note for the key, and two
\* different keys get two different frequencies.
C28_KeysMapToDocumentedNotes ==
    (fnArgs.fn = "keydown" /\ fnResult # <<>>) =>
        /\ \A k \in fnArgs.keys \cap NoteKeys :
              /\ k \in DOMAIN fnResult[1]
              /\ fnResult[1][k] = KeyMappings(k)
        /\ \A k1, k2 \in fnArgs.keys \cap NoteKeys :
              k1 # k2 => fnResult[1][k1] # fnResult[1][k2]

\* C28 witness: HandleKeyDown has stored two keys of different rows.
C28_Witness ==
    /\ fnArgs.fn = "keydown"
    /\ fnResult # <<>>
    /\ fnArgs.keys = {VirtualKeys_P, VirtualKeys_M}
    /\ DOMAIN fnResult[1] = {VirtualKeys_P, VirtualKeys_M}

\* C29: a sample MainThread writes while m_userFunction is nullptr is
\* UserProcess's, 0; a sample it writes once SetUserFunction has taken
\* effect is the callback's value for the clock, scaled; and
\* StaticNoiseCallback gives 0 when s_instance is nullptr, whatever the
\* waveform, the registry and the clock.
C29_DefaultUntilRegistered ==
    [][WritesSample =>
         /\ m_userFunction = "null" =>
               /\ lastSample'.by = "UserProcess"
               /\ lastSample'.value = 0
               /\ blockData'[m_nBlockCurrent][n] = 0
         /\ m_userFunction # "null" =>
               /\ lastSample'.by = "m_userFunction"
               /\ blockData'[m_nBlockCurrent][n] =
                     NewSample(NoiseCallback("this", waveRead, regAtLock,
                                             m_dGlobalTime), nMaxSample)
         /\ \A w \in WaveType, ks \in SUBSET FnKeys, t \in FnTimes :
               NoiseCallback("null", w, PressAll(EmptyNotes, ks), t) = 0]_vars

\* C29 witness: MainThread has written a default sample, and
\* SetUserFunction has since registered the callback.
C29_Witness ==
    /\ lastSample.by = "UserProcess"
    /\ m_userFunction = "callback"

\* The step is a completion notification: waveOutProc's WOM_DONE for the
\* block the device finished, the oldest one queued.
Notifies == cbPc = "idle" /\ cbPc' = "lock"

\* The first block MainThread treats as free: m_nBlockCurrent, or the one
\* after it while MainThread works on block m_nBlockCurrent.
FirstFree == IF Holding THEN NextBlock(m_nBlockCurrent) ELSE m_nBlockCurrent

\* The block a count of free blocks one higher makes writable: MainThread
\* takes the free blocks in round-robin order from FirstFree.
BlockGained == (FirstFree + m_nBlockFree) % nBlocks

\* C30: the block a completion notification returns to the pool, the one
\* that becomes writable by it, is the block that finished playing.
C30_ReturnsFinishedBlock ==
    [][(PlainRun /\ Notifies) => BlockGained = Head(queue)]_vars

\* The fractional part of f * t is below one half (f in thousandths of a
\* hertz, t in sample periods): twice the remainder of f * t by one
\* period, 1000 * 44100, is less than a period.
FirstHalf(f, t) == 2 * ((f * t) % (1000 * 44100)) < 1000 * 44100

\* C31: the square oscillator returns 1.0 when the fractional part of
\* f * t is below one half and -1.0 otherwise, nothing else, and the
\* evaluation changes no variable of the program.
C31_SquareIsPlusOrMinusOne ==
    [][(fnArgs.fn = "square" /\ fnResult = <<>> /\ fnResult' # <<>>) =>
         /\ fnResult'[1] \in {1000, -1000}
         /\ fnResult'[1] = 1000 <=> FirstHalf(fnArgs.x, fnArgs.dTime)
         /\ UNCHANGED programVars]_vars

\* C31 witness: the oscillator has given -1.0 at a phase of exactly one
\* half (half the sample rate, one sample period).
C31_Witness ==
    /\ fnArgs.fn = "square"
    /\ fnArgs.x = 500 * m_nSampleRate
    /\ fnArgs.dTime = 1
    /\ fnResult = <<-1000>>

\* C32: the scale factor is 2^31 - 1 for the 32-bit sample type, every
\* quantized sample lies within -(2^31 - 1) .. 2^31 - 1, a callback value
\* of 1.0 or more gives 2^31 - 1 and one of -1.0 or less gives -(2^31 - 1).
C32_ClipThenScaleByMax ==
    (fnArgs.fn = "quantize" /\ fnResult # <<>>) =>
        /\ fnArgs.max = 2147483647
        /\ fnResult[1] \in -2147483647 .. 2147483647
        /\ fnArgs.x >= 1000 => fnResult[1] = 2147483647
        /\ fnArgs.x <= -1000 => fnResult[1] = -2147483647

\* C33: a waveOutProc call with a message other than WOM_DONE (the
\* WOM_OPEN of waveOutOpen) leaves m_nBlockFree as it is and notifies
\* nobody; a call with WOM_DONE adds one to m_nBlockFree, then takes
\* m_muxBlockNotZero, then issues one notify_one holding it, and returns.
C33_CallbackActsOnlyOnCompletion ==
    [][/\ (uMsg' = "WOM_OPEN" /\ uMsg # "WOM_OPEN") =>
             /\ m_nBlockFree' = m_nBlockFree
             /\ cbPc' = "idle"
             /\ UNCHANGED <<cbPc, muxOwner, pc, wokenBy>>
       /\ Notifies =>
             /\ uMsg' = "WOM_DONE"
             /\ m_nBlockFree' = m_nBlockFree + 1
             /\ UNCHANGED <<muxOwner, pc, wokenBy>>
       /\ (cbPc = "lock" /\ cbPc' # "lock") =>
             /\ cbPc' = "notify"
             /\ muxOwner = "none" /\ muxOwner' = "callback"
             /\ UNCHANGED <<m_nBlockFree, pc, wokenBy>>
       /\ (cbPc = "notify" /\ cbPc' # "notify") =>
             /\ cbPc' = "idle"
             /\ muxOwner = "callback"
             /\ UNCHANGED m_nBlockFree
       /\ (m_nBlockFree' > m_nBlockFree) => Notifies]_vars

\* C33 witness: after the WOM_OPEN call, a WOM_DONE call has returned and
\* its notify has woken MainThread.
C33_Witness ==
    /\ uMsg = "WOM_DONE"
    /\ cbPc = "idle"
    /\ pc = "woken"
    /\ wokenBy = "callback"

\* The step is MainThread's return from m_cvBlockNotZero.wait(lm).
ReturnsFromWait == pc = "woken" /\ pc' = "decrement"

\* C34: whenever MainThread returns from the wait on a notify (Create's
\* start-up notify included), at least one block is free.
C34_WakeImpliesFreeBlock ==
    [][(PlainRun /\ ReturnsFromWait) => m_nBlockFree >= 1]_vars

\* The step is one of waveOutProc: its entry, its lock or its notify.
CallbackSteps == cbPc' # cbPc

\* C35: once ~NoiseMaker has run, no step of waveOutProc is executed for
\* the engine.
C35_NoCallbackAfterDestructor ==
    [][CallbackSteps => ownerPc # "destroyed"]_vars

\* C36: when the requested name is in the list of GetDevices, the device
\* id Create passes to waveOutOpen is the id of the device with that name.
C36_OpensRequestedDevice ==
    (fnArgs.fn = "open" /\ fnResult # <<>> /\ fnArgs.caps[fnArgs.x + 1]) =>
        fnResult[1] = fnArgs.x

\* The key of the call caller t takes a step of.
StepKey(t) == IF callPc[t] = "idle" THEN callOp'[t].key ELSE callOp[t].key

\* C37: no step of a HandleKeyDown or a HandleKeyUp for a key outside the
\* 17 mapped keys changes the registry; the registry never holds such a
\* key, with frequency 0 or any other; and no sample sums it.
C37_UnmappedKeyIgnored ==
    [][/\ \A t \in Callers :
            (/\ callPc'[t] # callPc[t]
             /\ StepOp(t) \in {"down", "up"}
             /\ StepKey(t) \notin NoteKeys) => m_activeNotes' = m_activeNotes
       /\ DOMAIN m_activeNotes' \subseteq NoteKeys
       /\ summed' \subseteq NoteKeys
       /\ DOMAIN regAtLock' \subseteq NoteKeys]_vars

\* C37 witness: the unmapped key was pressed and then released, both calls
\* have returned, and a mapped key is held.
C37_Witness ==
    /\ hist[UnmappedKey] = "on_off"
    /\ lastCall.call.op = "up"
    /\ lastCall.call.key = UnmappedKey
    /\ m_activeNotes # EmptyNotes

\* C38: while an AudioManager is alive s_instance is not null; s_instance
\* never points to an AudioManager whose destructor has run; and
\* StaticNoiseCallback never dereferences such an AudioManager.
C38_BridgeRefersToLiveManager ==
    /\ (\E i \in Managers : life[i] \in {"alive", "running"}) =>
           s_instance # Null
    /\ s_instance # Null => life[s_instance] \in {"alive", "running"}
    /\ derefed # "destroyed"

====
